---- MODULE Spec2Model ----
(***************************************************************************)
(* DaleStudy GitHub App: the Week-warning reconciler (utils/prWeeks.js),   *)
(* the webhook and /check-weeks handlers that trigger it, and the bulk     *)
(* merge handler (handlers/merge_prs.js) with its mergeability polling.    *)
(*                                                                         *)
(* Spec      : one pull request, its board items and its comments, and the *)
(*             handler invocations (webhook deliveries, manual checks)     *)
(*             that interleave at their await points.                      *)
(* SpecMerge : one merge-all request over a list of open pull requests.    *)
(***************************************************************************)
EXTENDS Integers, Sequences, FiniteSets, Bags, TLC

(***************************************************************************)
(* Strings the code inspects character by character are tuples of          *)
(* one-character strings; NULL is JS null/undefined, a tuple no character  *)
(* string equals.                                                          *)
(***************************************************************************)
NULL == <<"null">>

EMPTY == <<>>

Week8 == <<"W", "e", "e", "k", " ", "8">>

\* Status option names, compared only for equality: one token each.
Solving == <<"Solving">>

Completed == <<"Completed">>

\* JS truthiness of a string-or-null value: null and "" are falsy.
Truthy(v) == v # NULL /\ v # EMPTY

\* utils/constants.js
ALLOWED_ORG == "DaleStudy"

ALLOWED_REPO == "leetcode-study"

\* GraphQL page sizes of getProjectFields: projectItems(first: 10),
\* fieldValues(first: 20).
ItemsFirst == 10

FieldsFirst == 20

\* Bounds of the model.
MaxTasks == 3

MaxItems == 1

Min(a, b) == IF a < b THEN a ELSE b

Take(s, n) == SubSeq(s, 1, Min(Len(s), n))

(***************************************************************************)
(* utils/validation.js                                                     *)
(***************************************************************************)
validateOrganization(orgName) == orgName = ALLOWED_ORG

\* generateGitHubAppToken, as a function of the two answers it reads: the
\* account logins of the app's installations and the body of the
\* access_tokens response (token NULL: no token field).  It throws
\* (error) or returns the token.
generateGitHubAppToken(installations, tokenData) ==
    IF ~\E i \in 1..Len(installations) : installations[i] = "DaleStudy"
    THEN [error |-> "DaleStudy installation not found", token |-> NULL]
    ELSE IF tokenData.token = NULL \/ tokenData.token = EMPTY
    THEN [error |-> "Failed to get token", token |-> NULL]
    ELSE [error |-> "none", token |-> tokenData.token]

\* The answers of the two endpoints.
InstallationLists ==
    {<<>>, <<"OtherOrg">>, <<"DaleStudy">>, <<"OtherOrg", "DaleStudy">>}

TokenResponses == {[token |-> <<"g", "h", "s">>], [token |-> NULL],
                   [token |-> EMPTY]}

\* Whether a credential exchange returns a token, over all answers.
TokenIssued ==
    {generateGitHubAppToken(i, d).error = "none" :
        i \in InstallationLists, d \in TokenResponses}

isClosedPR(prState) == prState = "closed"

(***************************************************************************)
(* Board field reader.  A board item is the sequence of its field-value    *)
(* nodes [typename, fname, value]; the board of a PR is the sequence of    *)
(* its items.                                                              *)
(***************************************************************************)
IterationNode(w) == [typename |-> "ProjectV2ItemFieldIterationValue",
                     fname |-> "Week", value |-> w]

SelectNode(s) == [typename |-> "ProjectV2ItemFieldSingleSelectValue",
                  fname |-> "Status", value |-> s]

\* The body of the inner loop: each matching node overwrites the result.
FieldStep(result, field) ==
    LET r1 == IF field.typename = "ProjectV2ItemFieldIterationValue"
                 /\ field.fname = "Week"
              THEN [result EXCEPT !.week = field.value]
              ELSE result
    IN  IF field.typename = "ProjectV2ItemFieldSingleSelectValue"
           /\ field.fname = "Status"
        THEN [r1 EXCEPT !.status = field.value]
        ELSE r1

RECURSIVE FoldFields(_, _)
FoldFields(fieldValues, result) ==
    IF fieldValues = <<>> THEN result
    ELSE FoldFields(Tail(fieldValues), FieldStep(result, Head(fieldValues)))

RECURSIVE FoldItems(_, _)
FoldItems(projectItems, result) ==
    IF projectItems = <<>> THEN result
    ELSE FoldItems(Tail(projectItems),
                   FoldFields(Take(Head(projectItems), FieldsFirst), result))

\* getProjectFields: ok = the GraphQL response carries data; a response
\* without data is read as "no project items".
getProjectFields(items, ok) ==
    LET projectItems == IF ok THEN Take(items, ItemsFirst) ELSE <<>>
    IN  FoldItems(projectItems, [week |-> NULL, status |-> NULL])

(***************************************************************************)
(* Comments.  A comment is [id, bot, marker]: bot is user.type = "Bot",    *)
(* marker is body.includes("Week 설정이 누락되었습니다").                  *)
(***************************************************************************)
isWarningComment(comment) == comment.bot /\ comment.marker

WarningIdx(cs) == {i \in 1..Len(cs) : isWarningComment(cs[i])}

\* comments.some(isWarningComment)
HasWarning(cs) == WarningIdx(cs) # {}

\* comments.find(isWarningComment): the id of the first match, 0 if none.
FindWarning(cs) ==
    IF WarningIdx(cs) = {} THEN 0
    ELSE cs[CHOOSE i \in WarningIdx(cs) : \A j \in WarningIdx(cs) : i <= j].id

WarningCount(cs) == Cardinality(WarningIdx(cs))

RECURSIVE RemoveId(_, _)
RemoveId(cs, id) ==
    IF cs = <<>> THEN <<>>
    ELSE IF Head(cs).id = id THEN Tail(cs)
    ELSE <<Head(cs)>> \o RemoveId(Tail(cs), id)

HasId(cs, id) == \E i \in 1..Len(cs) : cs[i].id = id


(***************************************************************************)
(* State.                                                                  *)
(*   pr         the pull request: [state, maint] (maintenance label)       *)
(*   board      its board items                                            *)
(*   comments   its issue comments, in listing order                       *)
(*   nextId     id the tracker gives the next created comment              *)
(*   tasks      the bag of handler invocations not yet returned;           *)
(*              pc = "start" is a delivery not yet picked up               *)
(*   delivered  number of invocations created so far                       *)
(* History, read by the properties only:                                   *)
(*   last       the invocation that returned in the step just taken,       *)
(*              NoTask after any other step                                *)
(*   solo       no other invocation was in progress, and neither the board *)
(*              nor the PR changed, at any time since the invocation       *)
(*              picked up last began                                       *)
(*   before     number of warning comments when that invocation began      *)
(*   succ       that invocation began right after a handleWeekComment run  *)
(*              returned, with no board change before or since             *)
(*   quiet      the last invocation to return was a handleWeekComment run  *)
(*              alone, and nothing has happened since                      *)
(*   overlapped some two invocations were in progress together             *)
(*   anyFail    some upstream call failed                                  *)
(*   startWarn  number of warning comments the PR started with             *)
(*   home       name of the repository the PR belongs to                   *)
(*   http       the HTTP request of a delivery that is followed from       *)
(*              fetch on, and the WEBHOOK_SECRET of the environment        *)
(***************************************************************************)
VARIABLES pr, board, comments, nextId, tasks, delivered, last, solo, before,
          succ, quiet, overlapped, anyFail, startWarn, home, http

recVars == <<pr, board, comments, nextId, tasks, delivered, last, solo,
             before, succ, quiet, overlapped, anyFail, startWarn, home,
             http>>

\* No request is followed from fetch on.
NoHttp == [method |-> "", path |-> "", secret |-> 0, body |-> 0,
           signature |-> NULL]

(***************************************************************************)
(* State of one bulk request, merge-all (mergePrs) or approve-all          *)
(* (approvePrs); the two handlers keep the same locals.                    *)
(*   req             the request body                                      *)
(*   mpc             position of mergePrs                                  *)
(*   status          HTTP status of its response (0: none yet)             *)
(*   openPrs, weekFilteredPrs, weekMismatched, solvingExcluded, targetPrs, *)
(*   results, merged, approved, skipped, mergeableState, retries: its      *)
(*   locals                                                                *)
(*   fidx, tidx      positions of the two for-loops                        *)
(* History:                                                                *)
(*   queries, delays  getMergeableState calls and delay() waits for the PR *)
(*                    in hand                                              *)
(*   retryableSeen    how many of its observations were unmergeable and    *)
(*                    retryable                                            *)
(*   seen             what the latest query returned: its kind, its head   *)
(*                    and the mergeable and mergeable_state it carried     *)
(*   reviewed         what the review listing showed for the PR in hand:   *)
(*                    "approved", "unapproved" or "none" (not listed)      *)
(*   call             the latest mergePullRequest or approvePullRequest    *)
(*                    call, for one step                                   *)
(***************************************************************************)
VARIABLES req, mpc, status, openPrs, fidx, weekFilteredPrs, weekMismatched,
          solvingExcluded, targetPrs, tidx, results, merged, skipped,
          mergeableState, retries, queries, delays, retryableSeen, seen,
          reviewed, call, approved

mergeVars == <<req, mpc, status, openPrs, fidx, weekFilteredPrs,
               weekMismatched, solvingExcluded, targetPrs, tidx, results,
               merged, skipped, mergeableState, retries, queries, delays,
               retryableSeen, seen, reviewed, call, approved>>

(***************************************************************************)
(* A call of a pure function on its own: the function, its arguments and   *)
(* what it returned ("pending" before the call).                           *)
(***************************************************************************)
VARIABLE trial

NoTrial == [fn |-> "none", args |-> <<>>, out |-> "pending", res |-> <<>>]

\* What the handlers of a PR, and what a bulk request, leave alone.
nonRecVars == <<mergeVars, trial>>

nonBulkVars == <<recVars, trial>>

vars == <<recVars, mergeVars, trial>>

\* The excludes member of a request body: array is Array.isArray(value),
\* items are its elements as String() renders them (parseInt converts its
\* argument to a string first).
Excludes(items) == [array |-> TRUE, items |-> items]

NoExcludes == [array |-> FALSE, items |-> <<>>]

Request(owner, repo, week, method, excludes) ==
    [repo_owner |-> owner, repo_name |-> repo, week |-> week,
     merge_method |-> method, excludes |-> excludes]

NoState == [mergeable |-> FALSE, reason |-> "absent", retryable |-> FALSE,
            sha |-> 0]

NoCall == [pr |-> 0, sha |-> 0, head |-> 0, enabled |-> FALSE,
           week |-> NULL, status |-> NULL, draft |-> FALSE, maint |-> FALSE]

NoSeen == [kind |-> "none", sha |-> 0, mergeable |-> "", mstate |-> ""]

MergeIdle ==
    /\ req = Request("", "", NULL, "", NoExcludes)
    /\ mpc = "idle"
    /\ status = 0
    /\ openPrs = <<>>
    /\ fidx = 0
    /\ weekFilteredPrs = <<>>
    /\ weekMismatched = 0
    /\ solvingExcluded = 0
    /\ targetPrs = <<>>
    /\ tidx = 0
    /\ results = <<>>
    /\ merged = 0
    /\ skipped = 0
    /\ mergeableState = NoState
    /\ retries = 0
    /\ queries = 0
    /\ delays = 0
    /\ retryableSeen = 0
    /\ seen = NoSeen
    /\ reviewed = "none"
    /\ call = NoCall
    /\ approved = 0

\* The comment ensureWarningComment posts: the app is a Bot and
\* WARNING_COMMENT_BODY holds the marker.
WarningComment(id) == [id |-> id, bot |-> TRUE, marker |-> TRUE]

\* What the PR may carry when it is opened or reopened: nothing; comments
\* that are not warnings (a human quoting the marker text, another bot's
\* comment without it) and a board item with Week set; two warning
\* comments, as left by an earlier duplicate creation.
InitStates ==
    { [comments |-> <<>>, board |-> <<>>],
      [comments |-> <<[id |-> 1, bot |-> FALSE, marker |-> TRUE],
                      [id |-> 2, bot |-> TRUE, marker |-> FALSE]>>,
       board |-> <<<<IterationNode(Week8)>>>>],
      [comments |-> <<WarningComment(1), WarningComment(2)>>,
       board |-> <<>>] }

\* The fields of an inbound payload the handlers read.
Payload(action, org, repo, ctype, fname, from, to, nodeId, maint) ==
    [action |-> action, org |-> org, repo |-> repo, ctype |-> ctype,
     fname |-> fname, from |-> from, to |-> to, nodeId |-> nodeId,
     maint |-> maint, mention |-> FALSE]

ItemPayload(action, fname, to) ==
    Payload(action, ALLOWED_ORG, "", "PullRequest", fname, "", to, TRUE, FALSE)

PrPayload(action, maint) ==
    Payload(action, ALLOWED_ORG, ALLOWED_REPO, "", "", "", NULL, FALSE, maint)

CheckPayload(owner, repo) ==
    Payload("check", owner, repo, "", "", "", NULL, FALSE, FALSE)

\* The body of a response that is not the 200 of checkWeeks.
NoBody == [total_prs |-> 0, checked |-> 0, commented |-> 0, deleted |-> 0,
           results |-> <<>>]

\* A handler invocation.  op (the primitive in progress), hwc (it went
\* through handleWeekComment), week and target are the handler's locals;
\* resp is its response and body the counts of a checkWeeks response;
\* fetched (it has made an upstream call, the credential exchange
\* included), created, deleted, prior and after (the warning counts before
\* and after its last stretch) are history, set as it returns; lookup is
\* authError tells that a generateGitHubAppToken of its threw, and lookup
\* what became of the content node id of a board event that passed the
\* filters: "missing" from the payload, or the answer of
\* getPRInfoFromNodeId ("ok", "null": no node, "errors").
NewTask(kind, payload) ==
    [kind |-> kind, payload |-> payload, pc |-> "start", op |-> "none",
     hwc |-> FALSE, week |-> NULL, target |-> 0, resp |-> "pending",
     body |-> NoBody, fetched |-> FALSE, lookup |-> "none",
     authError |-> FALSE, waited |-> FALSE,
     created |-> FALSE, deleted |-> FALSE, prior |-> 0, after |-> 0]

NoTask == NewTask("none", Payload("", "", "", "", "", "", NULL, FALSE, FALSE))

Active(t) == t.pc \notin {"received", "start", "done"}

Quiescent == tasks = EmptyBag

LiveWeek == getProjectFields(board, TRUE).week

Init ==
    /\ MergeIdle
    /\ trial = NoTrial
    /\ pr \in [state : {"open"}, maint : BOOLEAN]
    /\ home = ALLOWED_REPO
    /\ http = NoHttp
    /\ \E s \in InitStates : comments = s.comments /\ board = s.board
    /\ nextId = Len(comments) + 1
    /\ startWarn = WarningCount(comments)
    /\ tasks = SetToBag({NewTask("pull_request",
                    PrPayload(IF comments = <<>> THEN "opened" ELSE "reopened",
                              pr.maint))})
    /\ delivered = 1
    /\ last = NoTask
    /\ solo = FALSE
    /\ before = 0
    /\ succ = FALSE
    /\ quiet = FALSE
    /\ overlapped = FALSE
    /\ anyFail = FALSE

(***************************************************************************)
(* The tracker and the board change; each change is delivered as a webhook *)
(* event, picked up at any later time and in any order.                    *)
(***************************************************************************)
Emit(kind, payload) ==
    /\ delivered < MaxTasks
    /\ delivered' = delivered + 1
    /\ tasks' = tasks (+) SetToBag({NewTask(kind, payload)})
    /\ quiet' = FALSE
    /\ succ' = FALSE
    /\ last' = NoTask
    /\ solo' = (solo /\ \A u \in BagToSet(tasks) : ~Active(u))
    /\ before' = IF solo' THEN before ELSE 0
    /\ UNCHANGED <<comments, nextId, overlapped, anyFail, startWarn, home,
                   http, nonRecVars>>

HasWeekNode(item) ==
    \E k \in 1..Len(item) : item[k].fname = "Week"

\* Field values come in the order of the project's fields: Week, Status.
SetNode(item, node) ==
    IF \E k \in 1..Len(item) : item[k].fname = node.fname
    THEN [k \in 1..Len(item) |->
            IF item[k].fname = node.fname THEN node ELSE item[k]]
    ELSE IF node.fname = "Week" THEN <<node>> \o item
    ELSE Append(item, node)

DropNode(item, fname) ==
    SelectSeq(item, LAMBDA n : n.fname # fname)

DropAt(s, i) == SubSeq(s, 1, i - 1) \o SubSeq(s, i + 1, Len(s))

AttachItem ==
    /\ Len(board) < MaxItems
    /\ board' = Append(board, <<>>)
    /\ Emit("projects_v2_item", ItemPayload("created", "", NULL))
    /\ UNCHANGED pr

SetWeek ==
    \E i \in 1..Len(board) :
        /\ board[i] # SetNode(board[i], IterationNode(Week8))
        /\ board' = [board EXCEPT ![i] = SetNode(@, IterationNode(Week8))]
        /\ Emit("projects_v2_item", ItemPayload("edited", "Week", Week8))
        /\ UNCHANGED pr

ClearWeek ==
    \E i \in 1..Len(board) :
        /\ HasWeekNode(board[i])
        /\ board' = [board EXCEPT ![i] = DropNode(@, "Week")]
        /\ Emit("projects_v2_item", ItemPayload("edited", "Week", NULL))
        /\ UNCHANGED pr

SetStatus ==
    \E i \in 1..Len(board) :
        /\ board[i] # SetNode(board[i], SelectNode(Solving))
        /\ board' = [board EXCEPT ![i] = SetNode(@, SelectNode(Solving))]
        /\ Emit("projects_v2_item", ItemPayload("edited", "Status", NULL))
        /\ UNCHANGED pr

DetachItem ==
    \E i \in 1..Len(board) :
        /\ board' = DropAt(board, i)
        /\ Emit("projects_v2_item", ItemPayload("deleted", "", NULL))
        /\ UNCHANGED pr

ClosePR ==
    /\ pr.state = "open"
    /\ pr' = [pr EXCEPT !.state = "closed"]
    /\ Emit("pull_request", PrPayload("closed", pr.maint))
    /\ UNCHANGED board

ReopenPR ==
    /\ pr.state = "closed"
    /\ pr' = [pr EXCEPT !.state = "open"]
    /\ Emit("pull_request", PrPayload("reopened", pr.maint))
    /\ UNCHANGED board

\* A manual POST /check-weeks.
ManualCheck ==
    /\ Emit("check-weeks", CheckPayload(ALLOWED_ORG, ALLOWED_REPO))
    /\ UNCHANGED <<pr, board>>

(***************************************************************************)
(* Handler invocations.  Each action below is one stretch of a handler     *)
(* between two await points that read or write the tracker; the outcome of *)
(* each upstream call (tok: the credential exchange succeeds, ok: the      *)
(* response is 2xx) is an input.                                           *)
(***************************************************************************)
Rest(t) == tasks (-) SetToBag({t})

OthersActive(t) == \E u \in BagToSet(Rest(t)) : Active(u)

\* The PR is in the listing of the open PRs of repository repo.
Listed(repo) == pr.state = "open" /\ repo = home

\* The 200 response of checkWeeks for the one PR of the model: the PR is
\* in the listing if it is open, and was checked if the loop reached
\* handleWeekComment for it (t.hwc), which returned t.week.
checkWeeksResponse(t) ==
    [total_prs |-> IF t.hwc \/ Listed(t.payload.repo) THEN 1 ELSE 0,
     checked |-> IF t.hwc THEN 1 ELSE 0,
     commented |-> IF t.hwc /\ ~Truthy(t.week) THEN 1 ELSE 0,
     deleted |-> 0,
     results |-> IF ~t.hwc THEN <<>>
                 ELSE <<[pr |-> 1, week |-> IF Truthy(t.week) THEN t.week ELSE NULL,
                         commented |-> ~Truthy(t.week),
                         deleted |-> "absent"]>>]

\* Invocation t returns: its response, and the warning count it leaves.
Finish(t, resp, cs) ==
    [t EXCEPT !.pc = "done", !.resp = resp, !.target = 0,
              !.body = IF t.kind = "check-weeks" /\ resp = "200"
                       THEN checkWeeksResponse(t) ELSE NoBody,
              !.prior = WarningCount(comments), !.after = WarningCount(cs)]

\* Invocation t goes on as u (or returns, when u.pc = "done"); failed: an
\* upstream call of this stretch failed.
Step(t, u, failed) ==
    LET begin == t.pc = "start" /\ Active(u)
        end == Active(t) /\ u.pc = "done"
        alone == IF begin THEN ~OthersActive(t)
                 ELSE IF Active(t) THEN solo /\ ~OthersActive(t)
                 ELSE solo
    IN  /\ tasks' = IF u.pc = "done" THEN Rest(t)
                    ELSE Rest(t) (+) SetToBag({u})
        /\ last' = IF u.pc = "done" THEN u ELSE NoTask
        /\ solo' = alone
        /\ before' = IF ~alone THEN 0
                     ELSE IF begin THEN WarningCount(comments) ELSE before
        /\ succ' = (alone /\ IF begin THEN quiet ELSE succ)
        /\ quiet' = IF end THEN solo /\ ~OthersActive(t) /\ u.hwc
                                /\ u.resp = "200"
                    ELSE IF t.pc = "start" /\ u.pc = "done" THEN quiet
                    ELSE FALSE
        /\ overlapped' = (overlapped \/ (begin /\ OthersActive(t)))
        /\ anyFail' = (anyFail \/ failed)
        /\ UNCHANGED <<delivered, startWarn, home, http, nonRecVars>>

Ignored(t) == Finish(t, "ignored", comments)

\* The response when an exception is raised in invocation t.  checkWeeks
\* and handleIssueCommentEvent await inside their own try block and answer
\* 500 with the message.  handleWebhook returns the promise of
\* handleProjectsV2ItemEvent or handlePullRequestEvent without awaiting
\* it, so a rejection of theirs passes its catch block, and fetch has
\* none: the exception leaves the worker uncaught.
Thrown(t) ==
    IF t.kind \in {"check-weeks", "issue_comment"} THEN "500"
    ELSE "uncaught"

\* handleWebhook's scope filters.
\* The scope filters without the organization filter.
ScopeOkRepoOnly(p) ==
    ~(p.repo # "" /\ p.repo # ALLOWED_REPO)

ScopeOk(p) ==
    /\ validateOrganization(p.org)
    /\ ~(p.repo # "" /\ p.repo # ALLOWED_REPO)

PassesItemFiltersAnyEdit(p) ==
    /\ ScopeOk(p)
    /\ p.action \in {"edited", "created", "deleted"}
    /\ p.ctype = "PullRequest"

\* The filters of handleWebhook and handleProjectsV2ItemEvent ahead of the
\* content node id: scope, action, content type, Week-field change.
PassesItemFilters(p) ==
    /\ ScopeOk(p)
    /\ p.action \in {"edited", "created", "deleted"}
    /\ p.ctype = "PullRequest"
    /\ (p.action \in {"deleted", "created"}
          \/ p.fname = "Week" \/ p.from = "Week")

ItemStartDeletedReads(t, tok, res, ok) ==
    LET p == t.payload
        pass == PassesItemFilters(p) /\ p.nodeId
        lookup == IF ~pass THEN (IF PassesItemFilters(p) THEN "missing"
                                 ELSE "none")
                  ELSE IF ~tok THEN "none"
                  ELSE res
        weekValue == IF Truthy(p.to) THEN p.to ELSE NULL
        u == IF ~pass THEN Ignored(t)
             ELSE IF ~tok \/ res = "errors"
                  THEN Finish(t, Thrown(t), comments)
             ELSE IF res = "null" THEN Finish(t, "500", comments)
             ELSE IF ok /\ isClosedPR(pr.state) THEN Ignored(t)
             ELSE IF ok /\ pr.maint THEN Ignored(t)
             ELSE IF p.action \in {"created", "deleted"}
                  THEN [t EXCEPT !.pc = "fields"]
             ELSE [t EXCEPT !.pc = "list", !.week = weekValue,
                            !.op = IF ~Truthy(weekValue) THEN "ensure"
                                   ELSE "remove"]
    IN  /\ t.kind = "projects_v2_item"
        /\ t.pc = "start"
        /\ Step(t, [u EXCEPT !.fetched = pass, !.lookup = lookup,
                             !.authError = pass /\ ~tok],
                pass /\ (~tok \/ res # "ok" \/ ~ok))
        /\ UNCHANGED <<pr, board, comments, nextId>>

\* handleProjectsV2ItemEvent up to its first comment or board call: the
\* action, content type, Week-field and node-id filters, the credential
\* exchange, the node-id lookup (res: "ok", "null" or "errors"), the live PR
\* re-fetch (ok) and the dispatch on the action.
ItemStart(t, tok, res, ok) ==
    LET p == t.payload
        pass == PassesItemFilters(p) /\ p.nodeId
        lookup == IF ~pass THEN (IF PassesItemFilters(p) THEN "missing"
                                 ELSE "none")
                  ELSE IF ~tok THEN "none"
                  ELSE res
        weekValue == IF Truthy(p.to) THEN p.to ELSE NULL
        u == IF ~pass THEN Ignored(t)
             ELSE IF ~tok \/ res = "errors"
                  THEN Finish(t, Thrown(t), comments)
             ELSE IF res = "null" THEN Finish(t, "500", comments)
             ELSE IF ok /\ isClosedPR(pr.state) THEN Ignored(t)
             ELSE IF ok /\ pr.maint THEN Ignored(t)
             ELSE IF p.action = "deleted"
                  THEN [t EXCEPT !.pc = "list", !.op = "ensure"]
             ELSE IF p.action = "created"
                  THEN [t EXCEPT !.pc = "fields"]
             ELSE [t EXCEPT !.pc = "list", !.week = weekValue,
                            !.op = IF ~Truthy(weekValue) THEN "ensure"
                                   ELSE "remove"]
    IN  /\ t.kind = "projects_v2_item"
        /\ t.pc = "start"
        /\ Step(t, [u EXCEPT !.fetched = pass, !.lookup = lookup,
                             !.authError = pass /\ ~tok],
                pass /\ (~tok \/ res # "ok" \/ ~ok))
        /\ UNCHANGED <<pr, board, comments, nextId>>

PrStartNoWait(t, tok) ==
    LET p == t.payload
        pass == /\ ScopeOk(p)
                /\ p.action \in {"opened", "reopened"}
                /\ ~p.maint
        u == IF ~pass THEN Ignored(t)
             ELSE IF ~tok THEN Finish(t, Thrown(t), comments)
             ELSE [t EXCEPT !.pc = "fields"]
    IN  /\ t.kind = "pull_request"
        /\ t.pc = "start"
        /\ Step(t, [u EXCEPT !.fetched = pass, !.authError = pass /\ ~tok],
                pass /\ ~tok)
        /\ UNCHANGED <<pr, board, comments, nextId>>

\* handlePullRequestEvent up to handleWeekComment: the action and label
\* filters, the 3-second wait and the credential exchange.
PrStart(t, tok) ==
    LET p == t.payload
        pass == /\ ScopeOk(p)
                /\ p.action \in {"opened", "reopened"}
                /\ ~p.maint
        u == IF ~pass THEN Ignored(t)
             ELSE IF ~tok THEN Finish(t, Thrown(t), comments)
             ELSE [t EXCEPT !.pc = "fields"]
    IN  /\ t.kind = "pull_request"
        /\ t.pc = "start"
        /\ Step(t, [u EXCEPT !.waited = pass, !.fetched = pass,
                             !.authError = pass /\ ~tok],
                pass /\ ~tok)
        /\ UNCHANGED <<pr, board, comments, nextId>>

\* checkWeeks with the credential exchange and the listing ahead of the
\* validation of repo_owner and repo_name.
CheckStartTokenFirst(t, tok, ok) ==
    LET p == t.payload
        u == IF ~tok \/ ~ok THEN Finish(t, "500", comments)
             ELSE IF p.org = "" \/ p.repo = "" THEN Finish(t, "400", comments)
             ELSE IF ~validateOrganization(p.org)
                  THEN Finish(t, "403", comments)
             ELSE IF ~Listed(p.repo) THEN Finish(t, "200", comments)
             ELSE IF pr.maint THEN Finish(t, "200", comments)
             ELSE [t EXCEPT !.pc = "fields"]
    IN  /\ t.kind = "check-weeks"
        /\ t.pc = "start"
        /\ Step(t, [u EXCEPT !.fetched = TRUE, !.authError = ~tok],
                ~tok \/ ~ok)
        /\ UNCHANGED <<pr, board, comments, nextId>>

\* checkWeeks up to handleWeekComment for the PR: validation, credential
\* exchange, the open-PR listing (ok) and the loop's maintenance skip.
CheckStart(t, tok, ok) ==
    LET p == t.payload
        valid == p.org # "" /\ p.repo # "" /\ validateOrganization(p.org)
        u == IF p.org = "" \/ p.repo = "" THEN Finish(t, "400", comments)
             ELSE IF ~validateOrganization(p.org)
                  THEN Finish(t, "403", comments)
             ELSE IF ~tok \/ ~ok THEN Finish(t, "500", comments)
             ELSE IF ~Listed(p.repo) THEN Finish(t, "200", comments)
             ELSE IF pr.maint THEN Finish(t, "200", comments)
             ELSE [t EXCEPT !.pc = "fields"]
    IN  /\ t.kind = "check-weeks"
        /\ t.pc = "start"
        /\ Step(t, [u EXCEPT !.fetched = valid, !.authError = valid /\ ~tok],
                valid /\ (~tok \/ ~ok))
        /\ UNCHANGED <<pr, board, comments, nextId>>

\* handleWeekComment: the board query and the dispatch on the week read.
handleWeekComment(t, ok) ==
    LET fields == getProjectFields(board, ok)
        weekValue == fields.week
        u == [t EXCEPT !.pc = "list", !.hwc = TRUE, !.week = weekValue,
                       !.op = IF ~Truthy(weekValue) THEN "ensure"
                              ELSE "remove"]
    IN  /\ t.pc = "fields"
        /\ Step(t, u, ~ok)
        /\ UNCHANGED <<pr, board, comments, nextId>>

\* ensureWarningComment, first half: the credential exchange and the
\* comment listing.  A failed listing falls through to the creation.
ensureWarningCommentList(t, tok, ok) ==
    LET u == IF ~tok
             THEN Finish([t EXCEPT !.authError = TRUE], Thrown(t), comments)
             ELSE IF ok /\ HasWarning(comments)
                  THEN Finish(t, "200", comments)
             ELSE [t EXCEPT !.pc = "create"]
    IN  /\ t.pc = "list"
        /\ t.op = "ensure"
        /\ Step(t, u, ~tok \/ ~ok)
        /\ UNCHANGED <<pr, board, comments, nextId>>

\* ensureWarningComment, second half: the POST of the warning comment.
ensureWarningCommentUpsert(t, ok) ==
    LET cs == IF ok /\ ~HasWarning(comments)
              THEN Append(comments, WarningComment(nextId))
              ELSE comments
        u == Finish([t EXCEPT !.created = ok], "200", cs)
    IN  /\ t.pc = "create"
        /\ comments' = cs
        /\ nextId' = IF cs # comments THEN nextId + 1 ELSE nextId
        /\ Step(t, u, ~ok)
        /\ UNCHANGED <<pr, board>>

ensureWarningCommentCreate(t, ok) ==
    LET cs == IF ok THEN Append(comments, WarningComment(nextId))
              ELSE comments
        u == Finish([t EXCEPT !.created = ok], "200", cs)
    IN  /\ t.pc = "create"
        /\ comments' = cs
        /\ nextId' = IF ok THEN nextId + 1 ELSE nextId
        /\ Step(t, u, ~ok)
        /\ UNCHANGED <<pr, board>>

\* removeWarningComment, first half: the credential exchange, the comment
\* listing and the search for the first warning comment.
removeWarningCommentList(t, tok, ok) ==
    LET warningComment == FindWarning(comments)
        u == IF ~tok
             THEN Finish([t EXCEPT !.authError = TRUE], Thrown(t), comments)
             ELSE IF ~ok THEN Finish(t, "200", comments)
             ELSE IF warningComment = 0 THEN Finish(t, "200", comments)
             ELSE [t EXCEPT !.pc = "delete", !.target = warningComment]
    IN  /\ t.pc = "list"
        /\ t.op = "remove"
        /\ Step(t, u, ~tok \/ ~ok)
        /\ UNCHANGED <<pr, board, comments, nextId>>

\* removeWarningComment, second half: the DELETE of the comment found; the
\* tracker answers 404 for a comment already gone.
removeWarningCommentDelete(t, ok) ==
    LET gone == ok /\ HasId(comments, t.target)
        cs == IF gone THEN RemoveId(comments, t.target) ELSE comments
        u == Finish([t EXCEPT !.deleted = gone], "200", cs)
    IN  /\ t.pc = "delete"
        /\ comments' = cs
        /\ Step(t, u, ~ok)
        /\ UNCHANGED <<pr, board, nextId>>

\* A call that is not reached after an earlier one failed has no outcome:
\* its input is fixed to the success value.
Handler ==
    \/ \E t \in BagToSet(tasks), tok \in TokenIssued,
          res \in {"ok", "null", "errors"}, ok \in BOOLEAN :
          /\ ~tok => res = "ok"
          /\ (~tok \/ res # "ok") => ok
          /\ ItemStart(t, tok, res, ok)
    \/ \E t \in BagToSet(tasks), tok \in TokenIssued : PrStart(t, tok)
    \/ \E t \in BagToSet(tasks), tok \in TokenIssued, ok \in BOOLEAN :
          /\ ~tok => ok
          /\ CheckStart(t, tok, ok)
    \/ \E t \in BagToSet(tasks), ok \in BOOLEAN : handleWeekComment(t, ok)
    \/ \E t \in BagToSet(tasks), tok \in TokenIssued, ok \in BOOLEAN :
          /\ ~tok => ok
          /\ ensureWarningCommentList(t, tok, ok)
    \/ \E t \in BagToSet(tasks), ok \in BOOLEAN :
          ensureWarningCommentCreate(t, ok)
    \/ \E t \in BagToSet(tasks), tok \in TokenIssued, ok \in BOOLEAN :
          /\ ~tok => ok
          /\ removeWarningCommentList(t, tok, ok)
    \/ \E t \in BagToSet(tasks), ok \in BOOLEAN :
          removeWarningCommentDelete(t, ok)

Environment ==
    \/ AttachItem
    \/ SetWeek
    \/ ClearWeek
    \/ SetStatus
    \/ DetachItem
    \/ ClosePR
    \/ ReopenPR
    \/ ManualCheck

Next == Handler \/ Environment

(***************************************************************************)
(* One delivery of any payload: a webhook of any event type, action,       *)
(* organization and repository, or a POST /check-weeks with any            *)
(* repo_owner and repo_name, arriving at a PR in any state, of the allowed *)
(* repository or of another one.  A pull_request or issue_comment event    *)
(* about the PR names the PR's repository; a board event names none.       *)
(***************************************************************************)
OtherOrg == "OtherOrg"

OtherRepo == "other-repo"

\* The X-GitHub-Event values followed; "push" stands for every event
\* type outside the switch of handleWebhook.
WebhookKinds == {"projects_v2_item", "pull_request", "issue_comment", "push"}

\* organization.login of a payload; "" stands for a payload without one.
Orgs == {ALLOWED_ORG, OtherOrg, ""}

\* An issue_comment payload: whether the issue is a PR and whether the
\* comment body mentions @dalestudy.
CommentPayload(action, org, onPr, mention) ==
    [Payload(action, org, ALLOWED_REPO,
             IF onPr THEN "PullRequest" ELSE "Issue",
             "", "", NULL, FALSE, FALSE) EXCEPT !.mention = mention]

Deliveries ==
    {NewTask("projects_v2_item",
             Payload(a, o, r, c, f, fr, w, n, FALSE)) :
        a \in {"edited", "created", "deleted", "reordered"}, o \in Orgs,
        r \in {"", OtherRepo}, c \in {"PullRequest", "Issue"},
        f \in {"Week", "Status"}, fr \in {"", "Week"}, w \in {NULL, Week8},
        n \in BOOLEAN}
    \cup {NewTask("pull_request",
                  Payload(a, o, r, "", "", "", NULL, FALSE, m)) :
            a \in {"opened", "reopened", "closed"}, o \in Orgs,
            r \in {ALLOWED_REPO, OtherRepo}, m \in BOOLEAN}
    \cup {NewTask("issue_comment", CommentPayload(a, o, onPr, m)) :
            a \in {"created", "edited"}, o \in Orgs, onPr \in BOOLEAN,
            m \in BOOLEAN}
    \cup {NewTask("push", Payload("", o, r, "", "", "", NULL, FALSE, FALSE)) :
            o \in Orgs, r \in {ALLOWED_REPO, OtherRepo}}
    \cup {NewTask("check-weeks", CheckPayload(o, r)) :
            o \in Orgs, r \in {"", ALLOWED_REPO, OtherRepo}}

\* The comments and the board the delivery finds: nothing; a warning on a
\* PR without Week; a stale warning on a PR with Week set; Week set and
\* no warning.
DeliveryStates ==
    { [comments |-> <<>>, board |-> <<>>],
      [comments |-> <<WarningComment(1)>>, board |-> <<>>],
      [comments |-> <<WarningComment(1)>>,
       board |-> <<<<IterationNode(Week8)>>>>],
      [comments |-> <<>>, board |-> <<<<IterationNode(Week8)>>>>] }

InitDelivery ==
    /\ MergeIdle
    /\ trial = NoTrial
    /\ pr \in [state : {"open", "closed"}, maint : BOOLEAN]
    /\ home \in {ALLOWED_REPO, OtherRepo}
    /\ http = NoHttp
    /\ \E s \in DeliveryStates : comments = s.comments /\ board = s.board
    /\ nextId = Len(comments) + 1
    /\ startWarn = WarningCount(comments)
    /\ \E d \in Deliveries :
          /\ d.kind \in {"pull_request", "issue_comment"} =>
                d.payload.repo = home
          /\ tasks = SetToBag({d})
    /\ delivered = 1
    /\ last = NoTask
    /\ solo = FALSE
    /\ before = 0
    /\ succ = FALSE
    /\ quiet = FALSE
    /\ overlapped = FALSE
    /\ anyFail = FALSE

\* handleWebhook for an issue_comment event, handleIssueCommentEvent and
\* performAIReview: the filters, the OPENAI_API_KEY check (key), the
\* credential exchange (tok) and the review: the diff or the generation
\* throws ("failed"), the diff is too large or the POST is refused
\* ("skipped"), or the review comment is posted ("posted").
IssueCommentStart(t, key, tok, res) ==
    LET p == t.payload
        pass == /\ ScopeOk(p)
                /\ p.action = "created"
                /\ p.ctype = "PullRequest"
                /\ p.mention
        posted == pass /\ key /\ tok /\ res = "posted"
        cs == IF posted
              THEN Append(comments,
                          [id |-> nextId, bot |-> TRUE, marker |-> FALSE])
              ELSE comments
        u == IF ~pass THEN Ignored(t)
             ELSE IF ~key THEN Finish(t, "unconfigured", comments)
             ELSE IF ~tok \/ res = "failed" THEN Finish(t, "500", comments)
             ELSE Finish(t, "200", cs)
    IN  /\ t.kind = "issue_comment"
        /\ t.pc = "start"
        /\ Step(t, [u EXCEPT !.fetched = pass /\ key,
                             !.authError = pass /\ key /\ ~tok],
                pass /\ key /\ (~tok \/ res = "failed"))
        /\ comments' = cs
        /\ nextId' = IF posted THEN nextId + 1 ELSE nextId
        /\ UNCHANGED <<pr, board>>

\* handleWebhook for an event type outside the switch: the two scope
\* filters, then the default case; all three acknowledge with "Ignored".
UnhandledEvent(t) ==
    /\ t.kind \notin {"projects_v2_item", "pull_request", "issue_comment",
                      "check-weeks"}
    /\ t.pc = "start"
    /\ Step(t, Ignored(t), FALSE)
    /\ UNCHANGED <<pr, board, comments, nextId>>

NextDelivery ==
    \/ Handler
    \/ \E t \in BagToSet(tasks), key \in BOOLEAN, tok \in TokenIssued,
          res \in {"posted", "skipped", "failed"} :
          /\ ~(key /\ tok) => res = "posted"
          /\ IssueCommentStart(t, key, tok, res)
    \/ \E t \in BagToSet(tasks) : UnhandledEvent(t)

(***************************************************************************)
(* Properties of the reconciler (checked under Spec).                      *)
(***************************************************************************)
\* The invocation that just returned ran handleWeekComment to its end,
\* alone, with every upstream call succeeding.
Reconciled ==
    /\ last.pc = "done"
    /\ last.hwc
    /\ last.resp = "200"
    /\ solo
    /\ ~anyFail

\* C1: after one reconciliation (handleWeekComment) completes with no
\* concurrent invocation, a warning comment exists exactly when the week it
\* observed is null, whatever comments the PR carried before.
C1_WarningIffWeekNull ==
    Reconciled => ((last.after > 0) <=> (last.week = NULL))

\* C2: a handleWeekComment run that directly follows another one, with no
\* board change in between, creates no comment and deletes no comment.
C2_SecondRunChangesNothing ==
    (Reconciled /\ succ) => (~last.created /\ ~last.deleted)

\* C3: once every delivered trigger has run to completion (and the board
\* has therefore stopped changing), an open, non-maintenance PR that started
\* without warning comments carries a warning comment exactly when its Week
\* is unset, all upstream calls having succeeded.
C3_ConvergedWhenQuiescent ==
    (Quiescent /\ pr.state = "open" /\ ~pr.maint /\ ~anyFail /\ startWarn = 0)
        => (HasWarning(comments) <=> ~Truthy(LiveWeek))

\* C4: starting from a PR with no warning comment, as long as no two
\* invocations overlap, the PR carries at most one warning comment.
C4_AtMostOneWarning ==
    (startWarn = 0 /\ ~overlapped) => WarningCount(comments) <= 1

\* C5: the existence check and the creation of ensureWarningComment are
\* two steps: once the check has passed, a successful POST adds a warning
\* comment whatever another invocation created in between, so two
\* invocations that both list before either creates leave two warnings.
C5_CreateAfterCheckIsUnconditional ==
    last.created => last.after = last.prior + 1

\* The race of C5 has happened: on a PR that started without warning
\* comments and with every upstream call succeeding (so each creation
\* followed a listing that showed no warning), an invocation has created a
\* second warning comment next to the one another invocation created.
C5_DuplicateWarningReached ==
    /\ last.created
    /\ last.prior = 1
    /\ WarningCount(comments) = 2
    /\ startWarn = 0
    /\ overlapped
    /\ ~anyFail

\* C6: from a PR carrying two or more warning comments, the next
\* reconciliation, run alone with the board unchanged, leaves at most one
\* warning comment, and none if Week is set.
C6_SelfCorrects ==
    (Reconciled /\ before >= 2)
        => (last.after <= 1 /\ (Truthy(last.week) => last.after = 0))


(***************************************************************************)
(* Bulk merge: utils/prActions.js and handlers/merge_prs.js.               *)
(***************************************************************************)
Week1 == <<"W", "e", "e", "k", " ", "1">>

Week12 == Week1 \o <<"2">>

Week12Current == Week12 \o <<"(", "c", "u", "r", "r", "e", "n", "t", ")">>

Week9 == <<"W", "e", "e", "k", " ", "9">>

\* String.prototype.startsWith
StartsWith(str, prefix) ==
    /\ Len(prefix) <= Len(str)
    /\ SubSeq(str, 1, Len(prefix)) = prefix

EndsWith(str, suffix) ==
    /\ Len(suffix) <= Len(str)
    /\ SubSeq(str, Len(str) - Len(suffix) + 1, Len(str)) = suffix

\* str.replace(/\(current\)$/, "")
StripCurrent(str) ==
    LET suffix == <<"(", "c", "u", "r", "r", "e", "n", "t", ")">>
    IN  IF EndsWith(str, suffix)
        THEN SubSeq(str, 1, Len(str) - Len(suffix))
        ELSE str

\* String.prototype.trim
RECURSIVE Trim(_)
Trim(str) ==
    IF str = <<>> THEN str
    ELSE IF Head(str) = " " THEN Trim(Tail(str))
    ELSE IF str[Len(str)] = " " THEN Trim(SubSeq(str, 1, Len(str) - 1))
    ELSE str

matchesWeek(actualWeek, expectedWeek) ==
    IF ~Truthy(actualWeek) THEN FALSE
    ELSE IF actualWeek = expectedWeek THEN TRUE
    ELSE IF StartsWith(actualWeek, expectedWeek \o <<"(">>) THEN TRUE
    ELSE IF StartsWith(expectedWeek, Trim(StripCurrent(actualWeek))) THEN TRUE
    ELSE FALSE

\* ALLOWED_MERGE_METHODS
ALLOWED_MERGE_METHODS == {"merge", "squash", "rebase"}

\* The polling loop's constants: const MAX_RETRIES = 3 and
\* const RETRY_DELAY = 2000 (milliseconds).
MAX_RETRIES == 3

RETRY_DELAY == 2000

\* Bounds of the merge model.
MaxPrs == 2

MaxSha == 2

\* parseInt(str, 10) on a string without sign or leading blanks: the value
\* of its longest prefix of decimal digits, NaN when that prefix is empty.
NaN == -1

DigitValue ==
    [c \in {"0", "1", "2", "3", "4", "5", "6", "7", "8", "9"} |->
        CASE c = "0" -> 0 [] c = "1" -> 1 [] c = "2" -> 2 [] c = "3" -> 3
          [] c = "4" -> 4 [] c = "5" -> 5 [] c = "6" -> 6 [] c = "7" -> 7
          [] c = "8" -> 8 [] c = "9" -> 9]

RECURSIVE ParseDigits(_, _)
ParseDigits(str, acc) ==
    IF str = <<>> \/ Head(str) \notin DOMAIN DigitValue THEN acc
    ELSE ParseDigits(Tail(str),
                     (IF acc = NaN THEN 0 ELSE acc * 10) + DigitValue[Head(str)])

parseInt(str) == ParseDigits(str, NaN)

\* String(n) for a PR number.
ToStr == [n \in 0..9 |-> <<CHOOSE c \in DOMAIN DigitValue : DigitValue[c] = n>>]

\* parseNumberArray: null for a value that is no array (filterTargetPrs
\* treats null and the empty list alike), else the distinct elements
\* parsed, those that are integers.
parseNumberArray(value) ==
    IF ~value.array THEN {}
    ELSE {n \in {parseInt(value.items[i]) : i \in 1..Len(value.items)} :
            n # NaN}

\* filterTargetPrs
filterTargetPrs(pullRequests, excludes) ==
    IF excludes = {} THEN pullRequests
    ELSE SelectSeq(pullRequests, LAMBDA q : q.number \notin excludes)

\* A skip filter that lets drafts through.
getSkipReasonLabelOnly(q) ==
    IF q.maint THEN "maintenance labeled" ELSE "none"

\* getSkipReason
getSkipReason(q) ==
    IF q.maint THEN "maintenance labeled"
    ELSE IF q.draft THEN "draft PR"
    ELSE "none"

\* formatResult: the PR's number, week and status (x || null), then the
\* action's outcome; skipped and merged are "true", "false" or, like the
\* other fields an outcome does not carry, "absent" (0 for sha).
OrNull(v) == IF Truthy(v) THEN v ELSE NULL

formatResult(q, outcome) ==
    outcome @@ [pr |-> q.number, week |-> OrNull(q.week), status |-> q.status]

Skip(reason) ==
    [skipped |-> "true", reason |-> reason, merged |-> "absent", sha |-> 0,
     error |-> "absent"]

MergeOk(sha) ==
    [skipped |-> "absent", reason |-> "absent", merged |-> "true", sha |-> sha,
     error |-> "absent"]

MergeFailed(error) ==
    [skipped |-> "absent", reason |-> "absent", merged |-> "false", sha |-> 0,
     error |-> error]

getMergeableStateBehindTerminal(prDetails) ==
    IF prDetails.mergeable # "true"
    THEN [mergeable |-> FALSE, reason |-> "not mergeable",
          retryable |-> prDetails.mergeable = "null", sha |-> 0]
    ELSE IF prDetails.mstate # "clean"
         THEN [mergeable |-> FALSE, reason |-> prDetails.mstate,
               retryable |-> prDetails.mstate = "unknown", sha |-> 0]
    ELSE [mergeable |-> TRUE, reason |-> "absent", retryable |-> FALSE,
          sha |-> prDetails.sha]

getMergeableStateAllRetryable(prDetails) ==
    IF prDetails.mergeable # "true"
    THEN IF prDetails.mergeable = "null"
         THEN [mergeable |-> FALSE, reason |-> "mergeability unknown",
               retryable |-> TRUE, sha |-> 0]
         ELSE [mergeable |-> FALSE, reason |-> "not mergeable",
               retryable |-> FALSE, sha |-> 0]
    ELSE IF prDetails.mstate # "clean"
         THEN [mergeable |-> FALSE, reason |-> prDetails.mstate,
               retryable |-> TRUE, sha |-> 0]
    ELSE [mergeable |-> TRUE, reason |-> "absent", retryable |-> FALSE,
          sha |-> prDetails.sha]

\* getMergeableState on the PR details the tracker returns:
\* [mergeable: "true" | "false" | "null", mstate: a mergeable_state or "",
\* sha: head.sha].
getMergeableState(prDetails) ==
    IF prDetails.mergeable # "true"
    THEN IF prDetails.mergeable = "null"
         THEN [mergeable |-> FALSE, reason |-> "mergeability unknown",
               retryable |-> TRUE, sha |-> 0]
         ELSE [mergeable |-> FALSE, reason |-> "not mergeable",
               retryable |-> FALSE, sha |-> 0]
    ELSE LET mstate == IF prDetails.mstate = "" THEN "unknown"
                       ELSE prDetails.mstate
         IN  IF mstate # "clean"
             THEN [mergeable |-> FALSE, reason |-> mstate,
                   retryable |-> mstate \in {"unknown", "behind"},
                   sha |-> 0]
             ELSE [mergeable |-> TRUE, reason |-> "absent",
                   retryable |-> FALSE, sha |-> prDetails.sha]

LoopContinuesInclusive(ms, n) ==
    ~ms.mergeable /\ ms.retryable /\ n <= MAX_RETRIES

\* The while condition of the polling loop.
LoopContinues(ms, n) == ~ms.mergeable /\ ms.retryable /\ n < MAX_RETRIES


\* (rawPayload.merge_method || "merge").toLowerCase()
ToLowerCase(m) == IF m = "SQUASH" THEN "squash" ELSE m

MergeMethod(r) == ToLowerCase(IF r.merge_method = "" THEN "merge"
                              ELSE r.merge_method)

\* Request bodies: well-formed ones for "Week 12" (with and without an
\* exclude list), and one for each rejection.
Requests ==
    {Request("", ALLOWED_REPO, Week12, "", NoExcludes),
     Request(ALLOWED_ORG, ALLOWED_REPO, Week12, "SQUASH",
             Excludes(<<<<"1">>, <<"x">>, <<"1">>>>)),
     Request("", "", Week12, "", NoExcludes),
     Request("", ALLOWED_REPO, NULL, "", NoExcludes),
     Request("", ALLOWED_REPO, EMPTY, "", NoExcludes),
     Request("OtherOrg", ALLOWED_REPO, Week12, "", NoExcludes),
     Request("", ALLOWED_REPO, Week12, "fast", Excludes(<<>>))}

\* The open PRs the listing may return: numbers 1..n, each plain, a draft,
\* or labelled maintenance.
PrLists ==
    UNION {{[i \in 1..n |-> [number |-> i, draft |-> f[i] = "draft",
                             maint |-> f[i] = "maintenance", week |-> NULL,
                             status |-> NULL]] :
               f \in [1..n -> {"plain", "draft", "maintenance"}]} :
           n \in 0..MaxPrs}

Item(w, s) == <<IterationNode(w), SelectNode(s)>>

\* What the board may hold for a PR when the request reads it.
Boards ==
    { <<>>,
      <<Item(Week12, Completed)>>,
      <<Item(Week12Current, Completed)>>,
      <<Item(Week12, Solving)>>,
      <<Item(Week1, Completed)>>,
      <<Item(Week9, Completed)>> }

\* What the tracker may report for a PR.
Details ==
    {[mergeable |-> m[1], mstate |-> m[2], sha |-> h] :
        m \in {<<"null", "unknown">>, <<"false", "dirty">>,
               <<"true", "clean">>, <<"true", "behind">>,
               <<"true", "blocked">>},
        h \in 1..MaxSha}

\* An observation as section 4.5 of the specification classifies it.
ObsKind(d) ==
    IF d.mergeable = "true" /\ d.mstate = "clean" THEN "clean"
    ELSE IF d.mergeable = "null" THEN "retryable"
    ELSE IF d.mergeable = "true" /\ d.mstate \in {"unknown", "behind", ""}
         THEN "retryable"
    ELSE "terminal"

RecIdle ==
    /\ pr = [state |-> "open", maint |-> FALSE]
    /\ home = ALLOWED_REPO
    /\ http = NoHttp
    /\ board = <<>>
    /\ comments = <<>>
    /\ nextId = 1
    /\ startWarn = 0
    /\ tasks = EmptyBag
    /\ delivered = 0
    /\ last = NoTask
    /\ solo = FALSE
    /\ before = 0
    /\ succ = FALSE
    /\ quiet = FALSE
    /\ overlapped = FALSE
    /\ anyFail = FALSE

InitMerge ==
    /\ RecIdle
    /\ trial = NoTrial
    /\ req \in Requests
    /\ mpc = "parse"
    /\ status = 0
    /\ openPrs = <<>>
    /\ fidx = 0
    /\ weekFilteredPrs = <<>>
    /\ weekMismatched = 0
    /\ solvingExcluded = 0
    /\ targetPrs = <<>>
    /\ tidx = 0
    /\ results = <<>>
    /\ merged = 0
    /\ skipped = 0
    /\ mergeableState = NoState
    /\ retries = 0
    /\ queries = 0
    /\ delays = 0
    /\ retryableSeen = 0
    /\ seen = NoSeen
    /\ reviewed = "none"
    /\ call = NoCall
    /\ approved = 0

\* A bulk request arrives, at mergePrs or at approvePrs.
InitBulk ==
    /\ RecIdle
    /\ trial = NoTrial
    /\ req \in Requests
    /\ mpc \in {"parse", "approve-parse"}
    /\ status = 0
    /\ openPrs = <<>>
    /\ fidx = 0
    /\ weekFilteredPrs = <<>>
    /\ weekMismatched = 0
    /\ solvingExcluded = 0
    /\ targetPrs = <<>>
    /\ tidx = 0
    /\ results = <<>>
    /\ merged = 0
    /\ skipped = 0
    /\ mergeableState = NoState
    /\ retries = 0
    /\ queries = 0
    /\ delays = 0
    /\ retryableSeen = 0
    /\ seen = NoSeen
    /\ reviewed = "none"
    /\ call = NoCall
    /\ approved = 0


(***************************************************************************)
(* mergePrs, one action per stretch between two upstream calls.            *)
(***************************************************************************)
filterVars == <<openPrs, fidx, weekFilteredPrs, weekMismatched,
                solvingExcluded, targetPrs>>

pollVars == <<mergeableState, retries, queries, delays, retryableSeen,
              seen, reviewed>>

tallyVars == <<results, merged, skipped, approved>>

\* The request returns with this HTTP status.
Respond(code) ==
    /\ status' = code
    /\ mpc' = "done"

PushFront(q, outcome) ==
    /\ results' = <<formatResult(q, outcome)>> \o results
    /\ skipped' = IF outcome.skipped = "true" THEN skipped + 1 ELSE skipped
    /\ merged' = IF outcome.merged = "true" THEN merged + 1 ELSE merged
    /\ tidx' = tidx + 1
    /\ mpc' = "loop"
    /\ UNCHANGED <<status, approved>>

\* results.push(formatResult(pr, outcome)) with the counter it bumps; the
\* for-loop moves to the next PR.
Push(q, outcome) ==
    /\ results' = Append(results, formatResult(q, outcome))
    /\ skipped' = IF outcome.skipped = "true" THEN skipped + 1 ELSE skipped
    /\ merged' = IF outcome.merged = "true" THEN merged + 1 ELSE merged
    /\ tidx' = tidx + 1
    /\ mpc' = "loop"
    /\ UNCHANGED <<status, approved>>

\* parsePrActionPayload, the merge_method check and the credential exchange.
MergeParse(tok) ==
    /\ mpc = "parse"
    /\ LET repoOwner == IF req.repo_owner = "" THEN "DaleStudy"
                        ELSE req.repo_owner
       IN  IF req.repo_name = "" THEN Respond(400)
           ELSE IF ~Truthy(req.week) THEN Respond(400)
           ELSE IF ~validateOrganization(repoOwner) THEN Respond(403)
           ELSE IF MergeMethod(req) \notin ALLOWED_MERGE_METHODS
                THEN Respond(400)
           ELSE IF ~tok THEN Respond(500)
           ELSE mpc' = "list" /\ UNCHANGED status
    /\ call' = NoCall
    /\ UNCHANGED <<req, filterVars, tidx, tallyVars, pollVars, nonBulkVars>>

\* The end of filterByWeekAndStatus and filterTargetPrs.
Targets(kept) == filterTargetPrs(kept, parseNumberArray(req.excludes))

\* fetchOpenPullRequests, hasApprovedReview or getPullRequestDetails throws
\* on a response that is not 2xx; the catch block of mergePrs answers 500
\* and the locals are gone.
MergeThrow ==
    /\ mpc \in {"list", "reviews", "poll", "repoll"}
    /\ Respond(500)
    /\ openPrs' = <<>>
    /\ fidx' = 0
    /\ weekFilteredPrs' = <<>>
    /\ weekMismatched' = 0
    /\ solvingExcluded' = 0
    /\ targetPrs' = <<>>
    /\ tidx' = 0
    /\ results' = <<>>
    /\ merged' = 0
    /\ skipped' = 0
    /\ approved' = 0
    /\ mergeableState' = NoState
    /\ retries' = 0
    /\ queries' = 0
    /\ delays' = 0
    /\ retryableSeen' = 0
    /\ seen' = NoSeen
    /\ reviewed' = "none"
    /\ call' = NoCall
    /\ UNCHANGED <<req, nonBulkVars>>

\* fetchOpenPullRequests
MergeList(prs) ==
    /\ mpc = "list"
    /\ openPrs' = prs
    /\ fidx' = 1
    /\ IF prs = <<>>
       THEN /\ mpc' = "loop"
            /\ targetPrs' = Targets(<<>>)
            /\ tidx' = 1
       ELSE /\ mpc' = "filter"
            /\ UNCHANGED <<targetPrs, tidx>>
    /\ UNCHANGED status
    /\ call' = NoCall
    /\ UNCHANGED <<req, weekFilteredPrs, weekMismatched, solvingExcluded,
                   tallyVars, pollVars, nonBulkVars>>

\* One iteration of filterByWeekAndStatus: b is the board of the PR as the
\* query finds it.  week and status are attached to the PR object, which is
\* read again only if it is kept (openPrs is read for its length alone).
MergeFilter(ok, b) ==
    /\ mpc = "filter"
    /\ LET fields == getProjectFields(b, ok)
           q == [openPrs[fidx] EXCEPT !.week = fields.week,
                                      !.status = fields.status]
           mismatch == ~matchesWeek(fields.week, req.week)
           solving == ~mismatch /\ fields.status = Solving
           kept == IF mismatch \/ solving THEN weekFilteredPrs
                   ELSE Append(weekFilteredPrs, q)
       IN  /\ weekMismatched' = IF mismatch THEN weekMismatched + 1
                                ELSE weekMismatched
           /\ solvingExcluded' = IF solving THEN solvingExcluded + 1
                                 ELSE solvingExcluded
           /\ weekFilteredPrs' = kept
           /\ fidx' = fidx + 1
           /\ IF fidx = Len(openPrs)
              THEN /\ mpc' = "loop"
                   /\ targetPrs' = Targets(kept)
                   /\ tidx' = 1
              ELSE UNCHANGED <<mpc, targetPrs, tidx>>
    /\ call' = NoCall
    /\ UNCHANGED <<req, status, openPrs, tallyVars, pollVars, nonBulkVars>>

\* The head of the for-loop over targetPrs, up to the review listing; after
\* the last PR, the 200 response.
MergeLoop ==
    /\ mpc = "loop"
    /\ IF tidx > Len(targetPrs)
       THEN Respond(200) /\ UNCHANGED <<tidx, tallyVars>>
       ELSE LET q == targetPrs[tidx]
                skipReason == getSkipReason(q)
            IN  IF skipReason # "none"
                THEN Push(q, Skip(skipReason))
                ELSE /\ mpc' = "reviews"
                     /\ UNCHANGED <<status, tidx, tallyVars>>
    /\ mergeableState' = NoState
    /\ retries' = 0
    /\ queries' = 0
    /\ delays' = 0
    /\ retryableSeen' = 0
    /\ seen' = NoSeen
    /\ reviewed' = "none"
    /\ call' = NoCall
    /\ UNCHANGED <<req, filterVars, nonBulkVars>>

mergeResponseProcessedAll ==
    [success |-> TRUE, action |-> "merge", week_filter |-> req.week,
     total_open_prs |-> Len(openPrs),
     week_matched |-> Len(weekFilteredPrs),
     week_mismatched |-> weekMismatched,
     solving_excluded |-> solvingExcluded,
     processed |-> Len(openPrs),
     merged |-> merged, skipped |-> skipped,
     merge_method |-> MergeMethod(req), results |-> results]

\* The body of the 200 response of mergePrs, from its locals.
mergeResponse ==
    [success |-> TRUE, action |-> "merge", week_filter |-> req.week,
     total_open_prs |-> Len(openPrs),
     week_matched |-> Len(weekFilteredPrs),
     week_mismatched |-> weekMismatched,
     solving_excluded |-> solvingExcluded,
     processed |-> Len(targetPrs),
     merged |-> merged, skipped |-> skipped,
     merge_method |-> MergeMethod(req), results |-> results]

\* The mergePrs loop without its approval requirement.
MergeReviewsUnchecked(isApproved) ==
    /\ mpc = "reviews"
    /\ mpc' = "poll"
    /\ reviewed' = IF isApproved THEN "approved" ELSE "unapproved"
    /\ call' = NoCall
    /\ UNCHANGED <<req, status, filterVars, tidx, tallyVars, mergeableState,
                   retries, queries, delays, retryableSeen, seen, nonBulkVars>>

\* hasApprovedReview: isApproved: some review has state APPROVED.
MergeReviews(isApproved) ==
    /\ mpc = "reviews"
    /\ IF ~isApproved
       THEN Push(targetPrs[tidx], Skip("no approvals"))
       ELSE /\ mpc' = "poll"
            /\ UNCHANGED <<status, tidx, tallyVars>>
    /\ reviewed' = IF isApproved THEN "approved" ELSE "unapproved"
    /\ call' = NoCall
    /\ UNCHANGED <<req, filterVars, mergeableState, retries, queries, delays,
                   retryableSeen, seen, nonBulkVars>>

MergeQueryStaleReason(d) ==
    /\ mpc \in {"poll", "repoll"}
    /\ d.sha >= seen.sha
    /\ LET ms == getMergeableState(d)
           n == IF mpc = "repoll" THEN retries + 1 ELSE 0
           old == IF mpc = "repoll" THEN mergeableState.reason ELSE ms.reason
       IN  /\ mergeableState' = ms
           /\ retries' = n
           /\ queries' = queries + 1
           /\ seen' = [kind |-> ObsKind(d), sha |-> d.sha,
                       mergeable |-> d.mergeable, mstate |-> d.mstate]
           /\ retryableSeen' = IF ObsKind(d) = "retryable"
                               THEN retryableSeen + 1 ELSE retryableSeen
           /\ IF LoopContinues(ms, n)
              THEN /\ mpc' = "delay"
                   /\ UNCHANGED <<status, tidx, tallyVars>>
              ELSE IF ~ms.mergeable
                   THEN Push(targetPrs[tidx], Skip(old))
              ELSE /\ mpc' = "nodeid"
                   /\ UNCHANGED <<status, tidx, tallyVars>>
    /\ call' = NoCall
    /\ UNCHANGED <<req, filterVars, delays, reviewed, nonBulkVars>>

\* getMergeableState, first (line 81) or in the loop (lines 95-101), then
\* the while condition and the skip that follows the loop.  d is what the
\* tracker holds for the PR at this moment: anything, except that the head
\* only moves forward.
MergeQuery(d) ==
    /\ mpc \in {"poll", "repoll"}
    /\ d.sha >= seen.sha
    /\ LET ms == getMergeableState(d)
           n == IF mpc = "repoll" THEN retries + 1 ELSE 0
       IN  /\ mergeableState' = ms
           /\ retries' = n
           /\ queries' = queries + 1
           /\ seen' = [kind |-> ObsKind(d), sha |-> d.sha,
                       mergeable |-> d.mergeable, mstate |-> d.mstate]
           /\ retryableSeen' = IF ObsKind(d) = "retryable"
                               THEN retryableSeen + 1 ELSE retryableSeen
           /\ IF LoopContinues(ms, n)
              THEN /\ mpc' = "delay"
                   /\ UNCHANGED <<status, tidx, tallyVars>>
              ELSE IF ~ms.mergeable
                   THEN Push(targetPrs[tidx], Skip(ms.reason))
              ELSE /\ mpc' = "nodeid"
                   /\ UNCHANGED <<status, tidx, tallyVars>>
    /\ call' = NoCall
    /\ UNCHANGED <<req, filterVars, delays, reviewed, nonBulkVars>>

\* await delay(RETRY_DELAY)
MergeDelay ==
    /\ mpc = "delay"
    /\ mpc' = "repoll"
    /\ delays' = delays + 1
    /\ call' = NoCall
    /\ UNCHANGED <<req, status, filterVars, tidx, tallyVars, mergeableState,
                   retries, queries, retryableSeen, seen, reviewed, nonBulkVars>>

\* mergePullRequest, step 1: getPullRequestNodeId.
MergeNodeId(ok) ==
    /\ mpc = "nodeid"
    /\ IF ~ok
       THEN Push(targetPrs[tidx], MergeFailed("Failed to get PR node ID"))
       ELSE mpc' = "mutation" /\ UNCHANGED <<status, tidx, tallyVars>>
    /\ call' = NoCall
    /\ UNCHANGED <<req, filterVars, pollVars, nonBulkVars>>

\* mergePullRequest, step 3: the enablePullRequestAutoMerge mutation.  Its
\* input names the PR and the method only, so when it is accepted (ok) the
\* tracker merges the PR's head as it then is; sha is only echoed in the
\* result.
enablePullRequestAutoMerge(ok, sha, head) ==
    [pr |-> targetPrs[tidx].number, sha |-> sha,
     head |-> IF ok THEN head ELSE 0, enabled |-> ok,
     week |-> targetPrs[tidx].week, status |-> targetPrs[tidx].status,
     draft |-> targetPrs[tidx].draft, maint |-> targetPrs[tidx].maint]

\* head: the PR's head when the mutation arrives.
MergeMutation(ok, head) ==
    /\ mpc = "mutation"
    /\ head >= seen.sha
    /\ call' = enablePullRequestAutoMerge(ok, mergeableState.sha, head)
    /\ IF ok
       THEN Push(targetPrs[tidx], MergeOk(mergeableState.sha))
       ELSE Push(targetPrs[tidx], MergeFailed("Auto-merge failed"))
    /\ UNCHANGED <<req, filterVars, pollVars, nonBulkVars>>

NextMerge ==
    \/ \E tok \in TokenIssued : MergeParse(tok)
    \/ MergeThrow
    \/ \E prs \in PrLists : MergeList(prs)
    \/ \E ok \in BOOLEAN, b \in Boards : MergeFilter(ok, b)
    \/ MergeLoop
    \/ \E isApproved \in BOOLEAN : MergeReviews(isApproved)
    \/ \E d \in Details : MergeQuery(d)
    \/ MergeDelay
    \/ \E ok \in BOOLEAN : MergeNodeId(ok)
    \/ \E ok \in BOOLEAN, head \in 1..MaxSha : MergeMutation(ok, head)

(***************************************************************************)
(* approvePrs, one action per stretch between two upstream calls.          *)
(***************************************************************************)
ApproveSkip(reason) ==
    [skipped |-> "true", reason |-> reason, approved |-> "absent",
     error |-> "absent"]

ApproveOk ==
    [skipped |-> "absent", reason |-> "absent", approved |-> "true",
     error |-> "absent"]

ApproveFailed(error) ==
    [skipped |-> "absent", reason |-> "absent", approved |-> "false",
     error |-> error]

\* results.push(formatResult(pr, outcome)) with the counter it bumps; the
\* for-loop moves to the next PR.
ApprovePush(q, outcome) ==
    /\ results' = Append(results, formatResult(q, outcome))
    /\ skipped' = IF outcome.skipped = "true" THEN skipped + 1 ELSE skipped
    /\ approved' = IF outcome.approved = "true" THEN approved + 1
                   ELSE approved
    /\ tidx' = tidx + 1
    /\ mpc' = "approve-loop"
    /\ UNCHANGED <<status, merged>>

approveIdle == <<fidx, weekFilteredPrs, weekMismatched, solvingExcluded,
                 mergeableState, retries, queries, delays, retryableSeen,
                 seen, nonBulkVars>>

\* parsePrActionPayload and the credential exchange.
ApproveParse(tok) ==
    /\ mpc = "approve-parse"
    /\ LET repoOwner == IF req.repo_owner = "" THEN "DaleStudy"
                        ELSE req.repo_owner
       IN  IF req.repo_name = "" THEN Respond(400)
           ELSE IF ~Truthy(req.week) THEN Respond(400)
           ELSE IF ~validateOrganization(repoOwner) THEN Respond(403)
           ELSE IF ~tok THEN Respond(500)
           ELSE mpc' = "approve-list" /\ UNCHANGED status
    /\ call' = NoCall
    /\ UNCHANGED <<req, openPrs, targetPrs, tidx, tallyVars, reviewed,
                   approveIdle>>

\* fetchOpenPullRequests or hasApprovedReview throws on a response that is
\* not 2xx; the catch block of approvePrs answers 500.
ApproveThrow ==
    /\ mpc \in {"approve-list", "approve-reviews"}
    /\ Respond(500)
    /\ openPrs' = <<>>
    /\ targetPrs' = <<>>
    /\ tidx' = 0
    /\ results' = <<>>
    /\ approved' = 0
    /\ skipped' = 0
    /\ reviewed' = "none"
    /\ call' = NoCall
    /\ UNCHANGED <<req, merged, approveIdle>>

\* fetchOpenPullRequests and filterTargetPrs.
ApproveList(prs) ==
    /\ mpc = "approve-list"
    /\ openPrs' = prs
    /\ targetPrs' = filterTargetPrs(prs, parseNumberArray(req.excludes))
    /\ tidx' = 1
    /\ mpc' = "approve-loop"
    /\ call' = NoCall
    /\ UNCHANGED <<req, status, tallyVars, reviewed, approveIdle>>

\* The head of the for-loop over targetPrs, up to the review listing; after
\* the last PR, the 200 response.
ApproveLoop ==
    /\ mpc = "approve-loop"
    /\ IF tidx > Len(targetPrs)
       THEN Respond(200) /\ UNCHANGED <<tidx, tallyVars>>
       ELSE LET q == targetPrs[tidx]
                skipReason == getSkipReason(q)
            IN  IF skipReason # "none"
                THEN ApprovePush(q, ApproveSkip(skipReason))
                ELSE /\ mpc' = "approve-reviews"
                     /\ UNCHANGED <<status, tidx, tallyVars>>
    /\ reviewed' = "none"
    /\ call' = NoCall
    /\ UNCHANGED <<req, openPrs, targetPrs, approveIdle>>

\* hasApprovedReview: a PR that already has an APPROVED review is skipped.
ApproveReviews(alreadyApproved) ==
    /\ mpc = "approve-reviews"
    /\ IF alreadyApproved
       THEN ApprovePush(targetPrs[tidx], ApproveSkip("already approved"))
       ELSE /\ mpc' = "approve-call"
            /\ UNCHANGED <<status, tidx, tallyVars>>
    /\ reviewed' = IF alreadyApproved THEN "approved" ELSE "unapproved"
    /\ call' = NoCall
    /\ UNCHANGED <<req, openPrs, targetPrs, approveIdle>>

\* approvePullRequest: the POST of an APPROVE review (ok: it is accepted).
approvePullRequest(ok) ==
    /\ mpc = "approve-call"
    /\ call' = [NoCall EXCEPT !.pr = targetPrs[tidx].number, !.enabled = ok,
                              !.draft = targetPrs[tidx].draft,
                              !.maint = targetPrs[tidx].maint]
    /\ IF ok
       THEN ApprovePush(targetPrs[tidx], ApproveOk)
       ELSE ApprovePush(targetPrs[tidx], ApproveFailed("Approval failed"))
    /\ UNCHANGED <<req, openPrs, targetPrs, reviewed, approveIdle>>

\* The body of the 200 response of approvePrs, from its locals.
approveResponse ==
    [success |-> TRUE, action |-> "approve",
     total_open_prs |-> Len(openPrs), processed |-> Len(targetPrs),
     approved |-> approved, skipped |-> skipped, results |-> results]

NextApprove ==
    \/ \E tok \in TokenIssued : ApproveParse(tok)
    \/ ApproveThrow
    \/ \E prs \in PrLists : ApproveList(prs)
    \/ ApproveLoop
    \/ \E alreadyApproved \in BOOLEAN : ApproveReviews(alreadyApproved)
    \/ \E ok \in BOOLEAN : approvePullRequest(ok)

(***************************************************************************)
(* matchesWeek called on its own.                                          *)
(***************************************************************************)
Week8Current == Week8 \o <<"(", "c", "u", "r", "r", "e", "n", "t", ")">>

\* Week values a board may show, and values that are none.
ActualWeeks ==
    {NULL, EMPTY, Week1, Week8, Week8Current, Week9, Week12, Week12Current,
     Week8 \o <<" ", "(", "c", "u", "r", "r", "e", "n", "t", ")">>,
     Week8 \o <<"(", "d", "o", "n", "e", ")">>,
     Week12 \o <<"3">>}

\* Week filters a caller may send.
WeekFilters == {Week1, Week8, Week8Current, Week9, Week12}

InitWeek ==
    /\ RecIdle
    /\ MergeIdle
    /\ trial \in {[NoTrial EXCEPT !.fn = "matchesWeek", !.args = <<a, f>>] :
                    a \in ActualWeeks, f \in WeekFilters}

CallMatchesWeek ==
    /\ trial.fn = "matchesWeek"
    /\ trial.out = "pending"
    /\ trial' = [trial EXCEPT !.out =
                    IF matchesWeek(trial.args[1], trial.args[2]) THEN "true"
                    ELSE "false"]
    /\ UNCHANGED <<recVars, mergeVars>>

(***************************************************************************)
(* getProjectFields as a function of the board it reads.                   *)
(***************************************************************************)
MaxBoardItems == 2

MaxFields == 2

\* Field-value nodes: two Week values, a Status value, and an iteration
\* value of a field that is not named Week.
FieldNodes ==
    {IterationNode(Week8), IterationNode(Week9), SelectNode(Solving),
     [typename |-> "ProjectV2ItemFieldIterationValue", fname |-> "Sprint",
      value |-> Week12]}

SeqsUpTo(S, n) == UNION {[1..k -> S] : k \in 0..n}

InitFields ==
    /\ RecIdle
    /\ MergeIdle
    /\ trial \in {[NoTrial EXCEPT !.fn = "getProjectFields", !.args = <<b>>] :
                    b \in SeqsUpTo(SeqsUpTo(FieldNodes, MaxFields), MaxBoardItems)}

CallGetProjectFields ==
    /\ trial.fn = "getProjectFields"
    /\ trial.out = "pending"
    /\ trial' = [trial EXCEPT !.out = "returned",
                              !.res = <<getProjectFields(trial.args[1], TRUE)>>]
    /\ UNCHANGED <<recVars, mergeVars>>

(***************************************************************************)
(* fetch: the entry point of the worker.  A request is [method, path,      *)
(* body, signature]: body identifies the raw text, signature is the        *)
(* X-Hub-Signature-256 header (NULL: absent).  secret is WEBHOOK_SECRET    *)
(* (0: not configured).  The HMAC-SHA256 of the code is stood for by a     *)
(* keyed digest of one byte, written as two hex digits.                    *)
(***************************************************************************)
Secrets == {1, 2}

Bodies == {1, 2}

HexDigits == <<"0", "1", "2", "3", "4", "5", "6", "7", "8", "9",
               "a", "b", "c", "d", "e", "f">>

\* crypto.subtle.sign("HMAC", key, payload)
Hmac(secret, body) == (secret * 89 + body * 53 + 7) % 256

\* b.toString(16).padStart(2, "0"), joined
Hex(byte) == <<HexDigits[(byte \div 16) + 1], HexDigits[(byte % 16) + 1]>>

Sha256Prefix == <<"s", "h", "a", "2", "5", "6", "=">>

Sha1Prefix == <<"s", "h", "a", "1", "=">>

\* charCodeAt(i) ^ charCodeAt(i) is 0 exactly for equal characters.
RECURSIVE XorFold(_, _, _)
XorFold(a, b, i) ==
    IF i > Len(a) THEN 0
    ELSE IF a[i] # b[i] THEN 1
    ELSE XorFold(a, b, i + 1)

timingSafeEqual(a, b) ==
    IF Len(a) # Len(b) THEN FALSE
    ELSE XorFold(a, b, 1) = 0

\* The same without the comparison of the digests.
verifyWebhookSignaturePrefixOnly(payload, signature, secret) ==
    ~(signature = NULL \/ signature = <<>>
        \/ ~StartsWith(signature, Sha256Prefix))

verifyWebhookSignature(payload, signature, secret) ==
    IF signature = NULL \/ signature = <<>>
          \/ ~StartsWith(signature, Sha256Prefix)
    THEN FALSE
    ELSE LET expectedSignature == SubSeq(signature, 8, Len(signature))
             actualSignature == Hex(Hmac(secret, payload))
         IN  timingSafeEqual(actualSignature, expectedSignature)

\* The header GitHub computes for a body with a secret.
Sign(secret, body) == Sha256Prefix \o Hex(Hmac(secret, body))

ToUpperCase(str) ==
    [i \in 1..Len(str) |->
        IF str[i] = "a" THEN "A" ELSE IF str[i] = "b" THEN "B"
        ELSE IF str[i] = "c" THEN "C" ELSE IF str[i] = "d" THEN "D"
        ELSE IF str[i] = "e" THEN "E" ELSE IF str[i] = "f" THEN "F"
        ELSE str[i]]

\* Signature headers: absent, empty, a bare digest, a sha1 header, the
\* header for any secret and body (the right one, a wrong key, another
\* body), a truncated one, one followed by more text, an upper-case one.
Signatures ==
    {NULL, <<>>}
    \cup {Hex(Hmac(k, b)) : k \in Secrets, b \in Bodies}
    \cup {Sha1Prefix \o Hex(Hmac(k, b)) : k \in Secrets, b \in Bodies}
    \cup {Sign(k, b) : k \in Secrets, b \in Bodies}
    \cup {SubSeq(Sign(k, b), 1, 8) : k \in Secrets, b \in Bodies}
    \cup {Sign(k, b) \o <<"0">> : k \in Secrets, b \in Bodies}
    \cup {Sha256Prefix \o ToUpperCase(Hex(Hmac(k, b))) :
            k \in Secrets, b \in Bodies}

HttpRequests ==
    [method : {"POST", "GET", "OPTIONS"},
     path : {"/webhooks", "/check-weeks", "/other"},
     secret : {0} \cup Secrets, body : Bodies, signature : Signatures]

\* The payloads followed from fetch on: one for each branch of the
\* handlers, all of the allowed organization.
FetchDeliveries ==
    {[d EXCEPT !.pc = "received"] :
        d \in {NewTask("projects_v2_item", ItemPayload("deleted", "", NULL)),
               NewTask("projects_v2_item",
                       ItemPayload("edited", "Week", Week8)),
               NewTask("pull_request", PrPayload("opened", FALSE)),
               NewTask("issue_comment",
                       CommentPayload("created", ALLOWED_ORG, TRUE, TRUE)),
               NewTask("push", PrPayload("", FALSE)),
               NewTask("check-weeks",
                       CheckPayload(ALLOWED_ORG, ALLOWED_REPO))}}

InitFetch ==
    /\ MergeIdle
    /\ trial = NoTrial
    /\ pr = [state |-> "open", maint |-> FALSE]
    /\ home = ALLOWED_REPO
    /\ \E s \in DeliveryStates : comments = s.comments /\ board = s.board
    /\ nextId = Len(comments) + 1
    /\ startWarn = WarningCount(comments)
    /\ http \in HttpRequests
    /\ \E d \in FetchDeliveries :
          /\ http.path = "/check-weeks" => d.kind = "check-weeks"
          /\ http.path = "/webhooks" => d.kind \in WebhookKinds
          /\ tasks = SetToBag({d})
    /\ delivered = 1
    /\ last = NoTask
    /\ solo = FALSE
    /\ before = 0
    /\ succ = FALSE
    /\ quiet = FALSE
    /\ overlapped = FALSE
    /\ anyFail = FALSE

\* fetch up to the call of handleWebhook or checkWeeks.
fetch(t) ==
    LET u == IF http.method = "OPTIONS" THEN Finish(t, "preflight", comments)
             ELSE IF http.method # "POST" THEN Finish(t, "405", comments)
             ELSE IF http.path = "/webhooks"
                  THEN IF http.secret # 0
                          /\ ~verifyWebhookSignature(http.body,
                                  http.signature, http.secret)
                       THEN Finish(t, "401", comments)
                       ELSE [t EXCEPT !.pc = "start"]
             ELSE IF http.path = "/check-weeks"
                  THEN [t EXCEPT !.pc = "start"]
             ELSE Finish(t, "404", comments)
    IN  /\ t.pc = "received"
        /\ Step(t, u, FALSE)
        /\ UNCHANGED <<pr, board, comments, nextId>>

NextFetch ==
    \/ \E t \in BagToSet(tasks) : fetch(t)
    \/ NextDelivery

(***************************************************************************)
(* Specifications.                                                         *)
(***************************************************************************)
\* Webhook and check-weeks handlers on one PR.
Spec == Init /\ [][Next]_vars

\* One merge-all request.
SpecMerge == InitMerge /\ [][NextMerge]_vars

\* One call of matchesWeek.
SpecWeek == InitWeek /\ [][CallMatchesWeek]_vars

\* One bulk request, approve-all or merge-all.
SpecBulk == InitBulk /\ [][NextMerge \/ NextApprove]_vars

\* One delivery of any payload, handled to its response.
SpecDelivery == InitDelivery /\ [][NextDelivery]_vars

\* getProjectFields applied to a board.
SpecFields == InitFields /\ [][CallGetProjectFields]_vars

\* One HTTP request, from fetch to its response.
SpecFetch == InitFetch /\ [][NextFetch]_vars


(***************************************************************************)
(* Properties of the merge-all request.                                    *)
(***************************************************************************)
\* C7: polling stops at the first observation that is not retryable.  While
\* every observation so far was retryable and there have been at most 3,
\* the loop goes on to another query; when observation k+1 is clean after k
\* retryable ones, exactly k retries were made and the merge is called with
\* the head SHA of that observation; a terminal observation ends the PR
\* with a skip.
C7_RetriesThenMergeWithCheckedSha ==
    /\ (status = 0 /\ queries >= 1 /\ queries <= 3 /\ retryableSeen = queries)
          => (mpc \in {"delay", "repoll"} /\ retries = queries - 1)
    /\ (queries >= 1 /\ seen.kind = "clean" /\ retryableSeen = queries - 1)
          => /\ retries = queries - 1
             /\ mergeableState.mergeable
             /\ mergeableState.sha = seen.sha
             /\ mpc \in {"nodeid", "mutation", "loop"}
    /\ (queries >= 1 /\ seen.kind = "terminal")
          => /\ retries = queries - 1
             /\ mpc = "loop"
             /\ results[Len(results)].skipped = "true"
    /\ call.pr # 0 => (seen.kind = "clean" /\ call.sha = seen.sha)

\* [retryable, retryable, clean] with the head moved before the third
\* query: 2 retries, then the merge call with the third query's SHA.
C7_TwoRetriesThenMerge ==
    /\ call.pr # 0
    /\ call.enabled
    /\ queries = 3
    /\ retryableSeen = 2
    /\ retries = 2
    /\ seen.sha = 2
    /\ call.sha = 2

\* C8: the polling loop is bounded.  For the PR in hand there are at most 4
\* mergeability queries (one more than retries), at most 3 delays of 2
\* seconds, one delay before each retry, and what the loop holds after a
\* query is what that query returned.
C8_PollingBounded ==
    /\ queries <= 4
    /\ retries <= 3
    /\ delays <= 3
    /\ delays * RETRY_DELAY <= 6000
    /\ queries >= 1 => queries = retries + 1
    /\ delays = (IF mpc = "repoll" THEN retries + 1 ELSE retries)
    /\ queries >= 1 => /\ mergeableState.mergeable <=> seen.kind = "clean"
                       /\ mergeableState.mergeable
                             => mergeableState.sha = seen.sha

\* Four retryable observations: 4 queries, 3 delays, and the PR is skipped.
C8_FourQueriesThreeDelays ==
    /\ queries = 4
    /\ delays = 3
    /\ retries = 3
    /\ seen.kind = "retryable"
    /\ mpc = "loop"
    /\ results[Len(results)].skipped = "true"

\* C9: an accepted merge call merges the head captured at the last
\* successful mergeability check, never a commit pushed after it.
C9_MergesCheckedHead ==
    (call.pr # 0 /\ call.enabled) => call.head = call.sha

\* The week-match rule of section 4.5, step 2.
WeekRule(actual, filter) ==
    /\ Truthy(actual)
    /\ \/ actual = filter
       \/ StartsWith(actual, filter \o <<"(">>)
       \/ StartsWith(Trim(StripCurrent(actual)), filter)

\* C10: merge-all calls the merge only for a PR whose board Week matches
\* the week filter under the week-match rule and whose board Status is not
\* "Solving".
C10_MergesOnlyMatchingWeekNotSolving ==
    call.pr # 0 => (WeekRule(call.week, req.week) /\ call.status # Solving)

\* C11: merge-all issues a merge call only for a PR whose review listing
\* showed an APPROVED review; a PR without one is entered in results as
\* skipped with reason "no approvals", and neither a mergeability query
\* nor a merge call is made for it.
C11_NoMergeWithoutApproval ==
    /\ call.pr # 0 => reviewed = "approved"
    /\ queries >= 1 => reviewed = "approved"
    /\ reviewed = "unapproved"
          => /\ mpc = "loop"
             /\ results[Len(results)].skipped = "true"
             /\ results[Len(results)].reason = "no approvals"
             /\ results[Len(results)].merged = "absent"
             /\ queries = 0
             /\ call.pr = 0

\* The second PR of the batch had no approval and was skipped, after the
\* first, approved, was merged.
C11_UnapprovedSkipped ==
    /\ reviewed = "unapproved"
    /\ Len(results) = 2
    /\ results[1].merged = "true"
    /\ results[2].reason = "no approvals"
    /\ merged = 1
    /\ skipped = 1

\* C12: in both bulk modes, an approve or merge call is issued only for
\* a PR whose number is not in the caller's excludes list, that does not
\* carry the maintenance label and that is not a draft.
Excluded(n) ==
    /\ req.excludes.array
    /\ \E i \in 1..Len(req.excludes.items) : req.excludes.items[i] = ToStr[n]

C12_NoCallForExcludedOrSkipped ==
    call.pr # 0 => (~Excluded(call.pr) /\ ~call.maint /\ ~call.draft)

\* An approve call has been issued for the second PR of a batch whose
\* first PR the caller excluded.
C12_ExcludedPassedOver ==
    /\ call.pr = 2
    /\ Excluded(1)
    /\ Len(openPrs) = 2
    /\ Len(targetPrs) = 1
    /\ mpc = "approve-loop"

\* C13: matchesWeek(actual, filter) is true exactly when the week-match
\* rule holds: actual equals filter, or actual is filter followed by "(",
\* or filter is a prefix of actual with the "(current)" suffix stripped.
C13_MatchesWeekIsTheRule ==
    trial.out # "pending"
        => (trial.out = "true" <=> WeekRule(trial.args[1], trial.args[2]))

\* C14: inside the approve-all or merge-all loop, whatever an upstream
\* call made for one PR answers, the request goes on (the failure goes
\* into that PR's result entry): it does not end there, and not with 500.
PerPrCalls ==
    {"reviews", "poll", "repoll", "nodeid", "mutation", "approve-reviews",
     "approve-call"}

C14_PerPrFailureIsolated ==
    [][(mpc \in PerPrCalls) => (mpc' # "done" /\ status' # 500)]_vars

\* C15: in the merge-all response, week_matched counts every open PR
\* whose Week matches the filter (all open PRs but the mismatched ones),
\* those excluded for Status "Solving" included, and solving_excluded
\* counts some of them.
C15_WeekMatchedIncludesSolving ==
    (mpc = "done" /\ status = 200)
        => /\ mergeResponse.week_matched
                 = mergeResponse.total_open_prs - mergeResponse.week_mismatched
           /\ mergeResponse.solving_excluded <= mergeResponse.week_matched

\* C16: in the merge-all response, processed counts no draft PR (and no
\* Solving PR): it is the number of target PRs that are not drafts.
C16_ProcessedExcludesDrafts ==
    (mpc = "done" /\ status = 200)
        => /\ mergeResponse.processed
                 = Cardinality({i \in 1..Len(targetPrs) : ~targetPrs[i].draft})
           /\ \A i \in 1..Len(targetPrs) : targetPrs[i].status # Solving

(***************************************************************************)
(* Properties of one delivery (checked under SpecDelivery).                *)
(***************************************************************************)
CheckReturned == last.kind = "check-weeks" /\ last.pc = "done"

\* C17: in the 200 response of /check-weeks, commented is the number of
\* PRs on which this invocation created a warning comment, and a result
\* entry has commented true only if a comment was created on its PR in
\* this invocation.
C17_CommentedCountsCreations ==
    (CheckReturned /\ last.resp = "200") =>
        /\ last.body.commented = IF last.created THEN 1 ELSE 0
        /\ \A i \in 1..Len(last.body.results) :
              last.body.results[i].commented => last.created

\* C18: in the 200 response of /check-weeks, deleted is the number of
\* stale warning comments this invocation deleted, and a PR whose warning
\* was removed is reported with deleted true.
C18_DeletedCountsDeletions ==
    (CheckReturned /\ last.resp = "200") =>
        /\ last.body.deleted = IF last.deleted THEN 1 ELSE 0
        /\ last.deleted =>
              \E i \in 1..Len(last.body.results) :
                  last.body.results[i].deleted = "true"

\* The invocation returned without a credential exchange or any other
\* upstream call, and the comments are the ones the delivery found (all
\* of them warnings, at the start of a delivery).
Untouched(t) ==
    /\ ~t.fetched
    /\ ~t.hwc
    /\ ~t.created
    /\ ~t.deleted
    /\ t.prior = t.after
    /\ Len(comments) = startWarn
    /\ nextId = startWarn + 1

InvalidCheck(p) ==
    p.org = "" \/ p.repo = "" \/ ~validateOrganization(p.org)

\* C19: checkWeeks answers 400 when repo_owner or repo_name is missing
\* and 403 when repo_owner is not the allowed organization, and in both
\* cases it makes no credential exchange, no listing and no comment
\* creation or deletion.
C19_InvalidCheckRejected ==
    /\ \A t \in BagToSet(tasks) :
          (t.kind = "check-weeks" /\ InvalidCheck(t.payload)) =>
              t.pc = "start"
    /\ (CheckReturned /\ InvalidCheck(last.payload)) =>
          /\ Untouched(last)
          /\ last.resp = IF last.payload.org = "" \/ last.payload.repo = ""
                         THEN "400" ELSE "403"

\* A /check-weeks for another organization was answered 403 while the PR
\* was open with Week set and a stale warning to delete.
C19_OtherOwnerRejected ==
    /\ CheckReturned
    /\ last.payload.org = OtherOrg
    /\ last.payload.repo = ALLOWED_REPO
    /\ last.resp = "403"
    /\ pr = [state |-> "open", maint |-> FALSE]
    /\ HasWarning(comments)
    /\ Truthy(LiveWeek)

\* C20: a webhook event whose organization login is not the allowed
\* organization, or is absent, is answered "Ignored" whatever its event
\* type, action and payload, with no upstream call and no comment
\* creation or deletion.
C20_OtherOrgIgnored ==
    /\ \A t \in BagToSet(tasks) :
          (t.kind \in WebhookKinds /\ ~validateOrganization(t.payload.org))
              => t.pc = "start"
    /\ (last.pc = "done" /\ last.kind \in WebhookKinds
          /\ ~validateOrganization(last.payload.org)) =>
          /\ last.resp = "ignored"
          /\ Untouched(last)

\* A board event without an organization, clearing Week on the open PR
\* that has no warning, was ignored.
C20_AbsentOrgIgnored ==
    /\ last.pc = "done"
    /\ last.kind = "projects_v2_item"
    /\ last.payload.org = ""
    /\ last.payload.action = "edited"
    /\ last.payload.fname = "Week"
    /\ last.payload.ctype = "PullRequest"
    /\ last.payload.nodeId
    /\ last.payload.repo = ""
    /\ last.resp = "ignored"
    /\ pr = [state |-> "open", maint |-> FALSE]
    /\ ~HasWarning(comments)

ItemReturned == last.kind = "projects_v2_item" /\ last.pc = "done"

\* C21: warning comments are created or deleted only on PRs of the
\* allowed repository: no delivery (board event without a repository
\* field, pull_request event, /check-weeks with any repo_name) creates or
\* deletes a comment on a PR of another repository.
C21_OnlyAllowedRepository ==
    (last.pc = "done" /\ home # ALLOWED_REPO) =>
        /\ ~last.created
        /\ ~last.deleted
        /\ last.prior = last.after

\* C22: a board event that resolves to a PR which is closed or bears the
\* maintenance label creates and deletes no warning comment, also when
\* the re-fetch of the PR is answered with a non-success status.
C22_ClosedOrMaintenanceUntouched ==
    (ItemReturned /\ (isClosedPR(pr.state) \/ pr.maint)) =>
        /\ ~last.created
        /\ ~last.deleted
        /\ last.prior = last.after

\* C23: for a PR-type board event that passes the action filter, every
\* failure to resolve the content node id (missing from the payload, no
\* node, errors reported) is answered with a 500 error response and
\* mutates no comment.
C23_UnresolvedIs500 ==
    (ItemReturned /\ last.lookup \in {"missing", "null", "errors"}) =>
        /\ last.resp = "500"
        /\ ~last.hwc
        /\ ~last.created
        /\ ~last.deleted
        /\ last.prior = last.after

\* C24: every exception raised while a webhook request is handled, in
\* handleWebhook or in the handler it dispatches to, is caught and
\* answered with a 500 JSON response that carries its message.
C24_ExceptionsAnswered500 ==
    (last.pc = "done" /\ last.kind \in WebhookKinds) =>
        last.resp # "uncaught"

(***************************************************************************)
(* Properties of one HTTP request (checked under SpecFetch).               *)
(***************************************************************************)
\* A POST /webhooks, with a secret configured, whose signature header is
\* not the one computed from the secret and the raw body.
BadSignature ==
    /\ http.method = "POST"
    /\ http.path = "/webhooks"
    /\ http.secret # 0
    /\ http.signature # Sign(http.secret, http.body)

\* C25: with a webhook secret configured, a /webhooks request whose
\* signature header is missing, malformed or not the HMAC of the raw body
\* is answered 401: its body is never handled as an event, no handler
\* runs, no comment is created or deleted.
C25_BadSignatureIs401 ==
    BadSignature =>
        /\ \A t \in BagToSet(tasks) : t.pc = "received"
        /\ last.pc = "done" => (last.resp = "401" /\ Untouched(last))

\* A pull_request "opened" event signed with another secret was answered
\* 401 while the PR had no Week and no warning.
C25_WrongKeyRejected ==
    /\ BadSignature
    /\ http.signature = Sign(2, http.body)
    /\ http.secret = 1
    /\ last.pc = "done"
    /\ last.kind = "pull_request"
    /\ last.resp = "401"
    /\ ~HasWarning(comments)
    /\ ~Truthy(LiveWeek)

(***************************************************************************)
(* Properties of getProjectFields (checked under SpecFields).              *)
(***************************************************************************)
\* The field values of a board, in board-item order then field-value
\* order.
RECURSIVE Flatten(_)
Flatten(items) ==
    IF items = <<>> THEN <<>> ELSE Head(items) \o Flatten(Tail(items))

\* The value of the first node of the given type and field name, or null.
FirstValue(nodes, typename, fname) ==
    LET hits == SelectSeq(nodes, LAMBDA n : n.typename = typename
                                            /\ n.fname = fname)
    IN  IF hits = <<>> THEN NULL ELSE Head(hits).value

\* C26: getProjectFields returns as week the title of the first iteration
\* value named "Week" and as status the name of the first single-select
\* value named "Status", in board-item order then field-value order (with
\* several board items the first one found wins); an attribute without a
\* matching field is null.
C26_FirstFieldWins ==
    trial.out = "returned" =>
        /\ trial.res[1].week =
              FirstValue(Flatten(trial.args[1]),
                         "ProjectV2ItemFieldIterationValue", "Week")
        /\ trial.res[1].status =
              FirstValue(Flatten(trial.args[1]),
                         "ProjectV2ItemFieldSingleSelectValue", "Status")

(***************************************************************************)
(* Properties of the bulk requests' input validation (SpecBulk, SpecMerge).*)
(***************************************************************************)
\* repo_owner as the handlers read it: absent means the allowed one.
OwnerOf(r) == IF r.repo_owner = "" THEN ALLOWED_ORG ELSE r.repo_owner

\* C27: an approve-all request needs no week: a body with a repo_name and
\* an allowed organization but no week is accepted and processed (it goes
\* on to the credential exchange and the listing).
C27_ApproveNeedsNoWeek ==
    [][(mpc = "approve-parse" /\ req.repo_name # ""
          /\ validateOrganization(OwnerOf(req)) /\ ~Truthy(req.week))
        => (mpc' = "approve-list" \/ status' = 500)]_vars

\* C28: merge-all rejects a request without week with 400, uses merge when
\* merge_method is absent, rejects a merge_method other than merge,
\* squash and rebase with 400, and rejects before any credential
\* exchange (the answer does not depend on it), listing or merge call.
C28_MergeInputValidated ==
    [][/\ (mpc' = "done" /\ status' = 200 /\ req.merge_method = "")
            => mergeResponse'.merge_method = "merge"
       /\ (mpc = "parse" /\ ~Truthy(req.week))
            => (mpc' = "done" /\ status' = 400 /\ openPrs' = <<>>
                  /\ call' = NoCall)
       /\ (mpc = "parse" /\ req.repo_name # "" /\ Truthy(req.week)
              /\ validateOrganization(OwnerOf(req))
              /\ req.merge_method \notin ALLOWED_MERGE_METHODS \cup {""})
            => (mpc' = "done" /\ status' = 400 /\ openPrs' = <<>>
                  /\ call' = NoCall)]_vars

ApprovePcs == {"approve-parse", "approve-list", "approve-loop",
               "approve-reviews", "approve-call"}

\* C29: approve-all submits an approval for an open PR exactly when the
\* PR is not excluded, not maintenance-labeled, not a draft and has no
\* APPROVED review; every other target PR is recorded as skipped with its
\* reason, maintenance before draft and both before the review lookup.
C29_ApprovesExactlyEligible ==
    [][/\ (mpc = "approve-list" /\ status' = 0) =>
              targetPrs' = SelectSeq(openPrs', LAMBDA q : ~Excluded(q.number))
       /\ (mpc = "approve-loop" /\ tidx <= Len(targetPrs)) =>
              IF targetPrs[tidx].maint
              THEN /\ mpc' = "approve-loop"
                   /\ results'[Len(results')].reason = "maintenance labeled"
              ELSE IF targetPrs[tidx].draft
              THEN /\ mpc' = "approve-loop"
                   /\ results'[Len(results')].reason = "draft PR"
              ELSE mpc' = "approve-reviews"
       /\ mpc = "approve-reviews" =>
              \/ /\ reviewed' = "unapproved"
                 /\ mpc' = "approve-call"
              \/ /\ reviewed' = "approved"
                 /\ mpc' = "approve-loop"
                 /\ results'[Len(results')].skipped = "true"
                 /\ results'[Len(results')].reason = "already approved"
       /\ mpc = "approve-call" =>
              /\ call'.pr = targetPrs[tidx].number
              /\ results'[Len(results')].pr = call'.pr
              /\ results'[Len(results')].skipped = "absent"
       /\ (call'.pr # 0 /\ mpc \in ApprovePcs) =>
              /\ mpc = "approve-call"
              /\ reviewed = "unapproved"
              /\ ~Excluded(call'.pr)
              /\ ~call'.maint
              /\ ~call'.draft]_vars

(***************************************************************************)
(* Properties of the credential exchange (checked under SpecDelivery).     *)
(***************************************************************************)
\* C30: generateGitHubAppToken fails with an error and returns no token
\* when no installation of the organization is among the installations or
\* when the token response has no token field; a request that hits this
\* failure lists no PR and issues no comment (creation or deletion).
C30_AuthErrorStopsRequest ==
    /\ \A i \in InstallationLists, d \in TokenResponses :
          ((\A k \in 1..Len(i) : i[k] # ALLOWED_ORG) \/ d.token = NULL) =>
              /\ generateGitHubAppToken(i, d).error # "none"
              /\ generateGitHubAppToken(i, d).token = NULL
    /\ (last.pc = "done" /\ last.authError) =>
          /\ last.resp \in {"500", "uncaught"}
          /\ last.kind = "check-weeks" => ~last.hwc
          /\ ~last.created
          /\ ~last.deleted
          /\ last.prior = last.after

ObsReason(o) ==
    IF o.mergeable = "false" THEN "not mergeable"
    ELSE IF o.mergeable = "null" THEN "mergeability unknown"
    ELSE o.mstate

\* C32: when the polling of a PR ends without a clean observation (the
\* observation is terminal, or it is retryable and MAX_RETRIES retries were
\* made), mergePrs records the PR as skipped with the reason of that last
\* observation and makes no merge call for it.
C32_SkippedWithLastReason ==
    [][(/\ mpc \in {"poll", "repoll"}
        /\ queries' = queries + 1
        /\ \/ seen'.kind = "terminal"
           \/ seen'.kind = "retryable" /\ retries' = MAX_RETRIES)
       => /\ Len(results') = Len(results) + 1
          /\ results'[Len(results')]
                = formatResult(targetPrs[tidx], Skip(ObsReason(seen')))
          /\ skipped' = skipped + 1
          /\ merged' = merged
          /\ call' = NoCall
          /\ mpc' \notin {"delay", "nodeid", "mutation"}]_vars

\* A PR whose earlier observations were retryable and whose last one was
\* "not mergeable" was skipped with the last reason.
C32_LastReasonKept ==
    /\ queries >= 2
    /\ retryableSeen = queries - 1
    /\ seen.mergeable = "false"
    /\ call = NoCall
    /\ Len(results) >= 1
    /\ results[Len(results)].skipped = "true"
    /\ results[Len(results)].reason = "not mergeable"

\* The action filter of section 4.2 of the specification.
ActionFilter(p) ==
    /\ p.action \in {"edited", "created", "deleted"}
    /\ p.ctype = "PullRequest"
    /\ p.action = "edited" => (p.fname = "Week" \/ p.from = "Week")

\* The board-item invocations that are past their filters.
ItemsPastFilters ==
    {t \in BagToSet(tasks) \cup {last} :
        t.kind = "projects_v2_item" /\ t.pc \notin {"received", "start"}}

\* C33: a projects_v2_item event goes on to the resolution of its PR only
\* if its action is edited, created or deleted, its content type is
\* PullRequest and, for edited, the current or the previous field name is
\* "Week"; a created or deleted event of the allowed scope that names its
\* content node goes on whatever its changes are; every event the filter
\* rejects is answered as ignored with no upstream call.
C33_ItemActionFilter ==
    \A t \in ItemsPastFilters :
        /\ t.fetched => ActionFilter(t.payload)
        /\ ~ActionFilter(t.payload) =>
               /\ t.pc = "done"
               /\ t.resp = "ignored"
               /\ Untouched(t)
        /\ (/\ t.payload.action \in {"created", "deleted"}
            /\ t.payload.ctype = "PullRequest"
            /\ ScopeOk(t.payload)
            /\ t.payload.nodeId) => t.fetched
        /\ (/\ t.payload.action = "edited"
            /\ t.payload.ctype = "PullRequest"
            /\ (t.payload.fname = "Week" \/ t.payload.from = "Week")
            /\ ScopeOk(t.payload)
            /\ t.payload.nodeId) => t.fetched

\* An edited event whose previous field name alone is "Week" went on to the
\* resolution of its PR, and one for another field was ignored.
C33_PreviousWeekNameProceeds ==
    /\ ItemReturned
    /\ last.payload.action = "edited"
    /\ last.payload.fname = "Status"
    /\ last.payload.from = "Week"
    /\ last.fetched
    /\ last.lookup = "ok"

C35_DeletedMeansWeekAbsent ==
    (/\ ItemReturned
     /\ last.payload.action = "deleted"
     /\ last.fetched
     /\ pr.state = "open"
     /\ ~pr.maint
     /\ ~anyFail) =>
        /\ last.resp = "200"
        /\ HasWarning(comments)
        /\ last.after >= 1
        /\ ~last.deleted
        /\ Len(comments) >= startWarn
        /\ last.week = NULL

\* A deleted event for a PR whose board item still showed a Week created
\* the warning.
C35_DeletedWarned ==
    /\ ItemReturned
    /\ last.payload.action = "deleted"
    /\ last.resp = "200"
    /\ ~anyFail
    /\ LiveWeek = Week8
    /\ startWarn = 0
    /\ last.created
    /\ WarningCount(comments) = 1
    /\ last.week = NULL

\* The pull_request invocations that are past their filters.
PrsPastFilters ==
    {t \in BagToSet(tasks) \cup {last} :
        t.kind = "pull_request" /\ t.pc \notin {"received", "start"}}

\* C36: of the pull_request events only those with action opened or
\* reopened and without the maintenance label are processed, the others
\* being ignored with no upstream call; for a processed event the 3-second
\* wait is over before the credential exchange and the board query, and
\* the board query comes before any creation or deletion of a warning
\* comment.
C36_PullRequestEventOrder ==
    \A t \in PrsPastFilters :
        LET processed == /\ t.payload.action \in {"opened", "reopened"}
                         /\ ~t.payload.maint
        IN  /\ (t.waited \/ t.fetched \/ t.hwc) => processed
            /\ ~processed =>
                   /\ t.pc = "done"
                   /\ t.resp = "ignored"
                   /\ Untouched(t)
            /\ (processed /\ ScopeOk(t.payload)) => t.waited
            /\ (t.fetched \/ t.hwc) => t.waited
            /\ (t.op # "none" \/ t.created \/ t.deleted) => t.hwc

\* A reopened PR without Week got its warning after the wait and the board
\* query.
C36_ReopenedWarned ==
    /\ last.kind = "pull_request"
    /\ last.pc = "done"
    /\ last.payload.action = "reopened"
    /\ last.waited
    /\ last.hwc
    /\ last.created
    /\ last.week = NULL
    /\ last.resp = "200"

\* The positions of a bulk request inside its for-loop: at the head of an
\* iteration, or at one of the upstream calls for the PR of the iteration.
InBulkLoop ==
    mpc \in {"loop", "reviews", "poll", "delay", "repoll", "nodeid",
             "mutation", "approve-loop", "approve-reviews", "approve-call"}

\* C37: a bulk request handles its target PRs one after the other.  While
\* it is at a call for the i-th target PR, the results hold one entry for
\* each of the i-1 PRs before it and none for a later one, so every call
\* for a PR is over before the first call for the next; the target PRs keep
\* the order of the open-PR listing and the results the order of the
\* target PRs.
C37_SequentialInListingOrder ==
    /\ \A i \in 1..Len(results) :
          /\ i <= Len(targetPrs)
          /\ results[i].pr = targetPrs[i].number
    /\ InBulkLoop =>
          /\ tidx \in 1..(Len(targetPrs) + 1)
          /\ Len(results) = tidx - 1
          /\ mpc \notin {"loop", "approve-loop"} => tidx <= Len(targetPrs)
    /\ (mpc = "done" /\ status = 200) => Len(results) = Len(targetPrs)
    /\ call.pr # 0 =>
          /\ Len(results) >= 1
          /\ call.pr = results[Len(results)].pr
    /\ \A i, j \in 1..Len(targetPrs) :
          i < j => \E k, l \in 1..Len(openPrs) :
                      /\ k < l
                      /\ openPrs[k].number = targetPrs[i].number
                      /\ openPrs[l].number = targetPrs[j].number

\* A merge-all request has answered for two target PRs: the first was
\* merged, the second skipped, and the results list them in that order.
C37_TwoInOrder ==
    /\ mpc = "done"
    /\ status = 200
    /\ Len(openPrs) = 2
    /\ Len(results) = 2
    /\ results[1].pr = openPrs[1].number
    /\ results[2].pr = openPrs[2].number
    /\ "merged" \in DOMAIN results[1]
    /\ results[1].merged = "true"
    /\ results[2].skipped = "true"

\* A week value without its trailing parenthesised suffix, if it has one.
WithoutSuffix(str) ==
    LET opens == {i \in 1..Len(str) : str[i] = "("}
    IN  IF str # <<>> /\ str[Len(str)] = ")" /\ opens # {}
        THEN Trim(SubSeq(str, 1, (CHOOSE i \in opens :
                                    \A j \in opens : i <= j) - 1))
        ELSE str

\* C38: matchesWeek selects no other week: merge-all with filter W calls
\* the merge only for a PR whose board Week, without a trailing
\* parenthesised suffix such as "(current)", equals W; a PR of "Week 1" is
\* not merged by a request for "Week 12".
C38_NeverAnotherWeek ==
    call.pr # 0 =>
        /\ Truthy(call.week)
        /\ WithoutSuffix(call.week) = req.week

\* C39: the counters of a bulk response agree.  In the merge-all response
\* total_open_prs = week_matched + week_mismatched + solving_excluded,
\* results has processed entries, merged + skipped <= processed, and
\* processed - merged - skipped is the number of entries whose merge call
\* failed; in the approve-all response results has processed entries and
\* approved + skipped <= processed.
C39_CountersConsistent ==
    [][/\ (mpc = "loop" /\ mpc' = "done" /\ status' = 200) =>
              LET r == mergeResponse'
              IN  /\ r.total_open_prs
                        = r.week_matched + r.week_mismatched
                             + r.solving_excluded
                  /\ Len(r.results) = r.processed
                  /\ r.merged + r.skipped <= r.processed
                  /\ r.processed - r.merged - r.skipped
                        = Cardinality({i \in 1..Len(r.results) :
                                         r.results[i].merged = "false"})
       /\ (mpc = "approve-loop" /\ mpc' = "done" /\ status' = 200) =>
              LET r == approveResponse'
              IN  /\ Len(r.results) = r.processed
                  /\ r.approved + r.skipped <= r.processed]_vars

\* A merge-all request has answered 200 for two open PRs, the first of which
\* failed in its merge call and the second of which was merged.
C39_OneFailedOneMerged ==
    /\ mpc = "done"
    /\ status = 200
    /\ Len(openPrs) = 2
    /\ weekMismatched = 0
    /\ Len(results) = 2
    /\ "merged" \in DOMAIN results[1]
    /\ results[1].merged = "false"
    /\ results[2].merged = "true"
    /\ merged = 1
    /\ skipped = 0

====
